---- MODULE Spec2Model ----
(***************************************************************************)
(* A model of the aiagent gateway: the streaming content filter            *)
(* (images/gateway/contentfilters.py), the model adapters                  *)
(* (images/gateway/adapters) and the agent orchestration graph             *)
(* (images/agent/graph.py and images/agent/nodes).                         *)
(*                                                                         *)
(* Text is modelled as a sequence of one-character strings, so that the    *)
(* regular expressions of the source are computed character by character.  *)
(***************************************************************************)
EXTENDS Integers, Sequences, FiniteSets, TLC

(***************************************************************************)
(* Bounds of the model.                                                    *)
(***************************************************************************)
\* number of pieces a text fed to the content filter is concatenated from
MaxPieces == 2

\* number of flush calls made while text is still to come
MaxEarlyFlush == 1

(***************************************************************************)
(* The state.  Nine components are modelled, each under a specification    *)
(* of its own: one request through the agent graph, one GooseFilter and    *)
(* the text streamed to it, one normalization by a model adapter, the      *)
(* adapter cache of select_adapter, one crawl of the ingest node, one run  *)
(* of the research node with its collaborators, the vector store under     *)
(* two crawls of a site, two concurrent calls of create_collection, and    *)
(* two concurrent requests.                                                *)
(***************************************************************************)
VARIABLES
    pc,            \* the node to run next; END after answer, raised on an exception
    st,            \* the AgentState of the request
    trace,         \* the nodes that have completed, in order
    asked,         \* the nodes that have invoked the completion model
    events,        \* the events chat_stream.generate of agent.py has sent
    critLog,       \* one entry for each run of critic_node
    allRejected,   \* every reply to the critique prompt so far reported non-approval
    callsReturned  \* every call of a collaborator has returned so far

agentVars ==
    <<pc, st, trace, asked, events, critLog, allRejected, callsReturned>>

VARIABLES
    ftext,      \* the whole text the response will stream
    fpos,       \* how much of ftext has been fed
    fbuffer,    \* GooseFilter._buffer
    in_fence,   \* GooseFilter._in_fence
    fouts,      \* everything feed and flush have returned, concatenated
    lastOp,     \* new, feed or flush: the last call on the filter
    lastOut,    \* what the last call returned
    earlyFlush, \* number of flush calls made while text was still to come
    byChar      \* every feed so far passed exactly one character

filterVars ==
    <<ftext, fpos, fbuffer, in_fence, fouts, lastOp, lastOut, earlyFlush, byChar>>

VARIABLES
    adapter,     \* the adapter variant select_adapter returned
    apieces,     \* the pieces the content of the raw message was written from
    ollama_msg,  \* the raw message
    tool_names, \* the names of the tools the caller declared
    result,      \* the message normalize_tool_calls returned
    normalized   \* normalize_tool_calls has been called

adapterVars == <<adapter, apieces, ollama_msg, tool_names, result, normalized>>

VARIABLES
    adapter_cache, \* the cache of select_adapter: model identifier -> instance
    instances,     \* the adapter instances created so far, each by its variant
    selected       \* the last call of select_adapter: its argument and its result

selectorVars == <<adapter_cache, instances, selected>>

VARIABLES
    crawl_pc,  \* start, loop, returned or raised: where _crawl_and_index is
    to_visit,  \* the URLs queued for a visit
    visited,   \* the URLs taken from the queue so far
    indexed,   \* the number of pages indexed
    fetched    \* the number of requests.get calls made

crawlVars == <<crawl_pc, to_visit, visited, indexed, fetched>>

VARIABLES
    sources,       \* what the collaborators of research_node return or raise
    summary_reply, \* the reply of the completion model to the summary prompt
    research_out,  \* what research_node returned
    research_pc    \* start, returned or raised: where research_node is

researchVars == <<sources, summary_reply, research_out, research_pc>>

VARIABLES
    points,       \* the points of the vector store: identifier -> payload
    first_points, \* the points as they were when the first crawl ended
    site_chunks,  \* the chunks of the text of each page of the site
    crawl_no,     \* 1 or 2: the crawl under way; 3 when both have ended
    at,           \* the page and the chunk the crawl is at
    stored        \* the chunks each crawl has stored

storeVars == <<points, first_points, site_chunks, crawl_no, at, stored>>

VARIABLES
    existing,     \* the names of the collections the vector store holds
    caller_name,  \* the collection each caller of create_collection asks for
    caller_pc,    \* check, create or done: where each caller is
    caller_ret    \* what create_collection returned to each caller

raceVars == <<existing, caller_name, caller_pc, caller_ret>>

VARIABLES
    requests,  \* two requests: the replies each will get, its node, its state
    filters,   \* the GooseFilter instances: buffer and fence flag of each
    streams    \* the text each response streams, how far, and the output

pairVars == <<requests, filters, streams>>

auxVars ==
    <<selectorVars, crawlVars, researchVars, storeVars, raceVars, pairVars>>

\* what a step of one component leaves alone
exceptSelector ==
    <<agentVars, filterVars, adapterVars, crawlVars, researchVars, storeVars,
      raceVars, pairVars>>

exceptCrawl ==
    <<agentVars, filterVars, adapterVars, selectorVars, researchVars, storeVars,
      raceVars, pairVars>>

exceptResearch ==
    <<agentVars, filterVars, adapterVars, selectorVars, crawlVars, storeVars,
      raceVars, pairVars>>

exceptStore ==
    <<agentVars, filterVars, adapterVars, selectorVars, crawlVars, researchVars,
      raceVars, pairVars>>

exceptRace ==
    <<agentVars, filterVars, adapterVars, selectorVars, crawlVars, researchVars,
      storeVars, pairVars>>

exceptPair ==
    <<agentVars, filterVars, adapterVars, selectorVars, crawlVars, researchVars,
      storeVars, raceVars>>

(***************************************************************************)
(* Characters and text helpers (Python str semantics).                     *)
(***************************************************************************)
Letters == {"a", "b", "c", "d", "e", "f", "g", "h", "i", "j", "k", "l", "m",
            "n", "o", "p", "q", "r", "s", "t", "u", "v", "w", "x", "y", "z"}

Digits == {"0", "1", "2", "3", "4", "5", "6", "7", "8", "9"}

\* \s of the re module, and the characters str.strip() removes
IsSpace(c) == c \in {" ", "\t", "\n", "\r"}

\* \w of the re module
IsWord(c) == c \in Letters \cup Digits \cup {"_"}

MinOf(S) == CHOOSE x \in S : \A y \in S : x <= y

MaxOf(S) == CHOOSE x \in S : \A y \in S : x >= y

\* s[i..] starts with the literal lit
MatchAt(s, i, lit) ==
    /\ i >= 1
    /\ i + Len(lit) - 1 <= Len(s)
    /\ \A k \in 1..Len(lit) : s[i + k - 1] = lit[k]

\* str.strip()
Trim(s) ==
    LET keep == {i \in 1..Len(s) : ~IsSpace(s[i])}
    IN  IF keep = {} THEN <<>> ELSE SubSeq(s, MinOf(keep), MaxOf(keep))

\* str.rfind of the newline, 1-based; 0 when there is none
LastNewline(s) ==
    LET nl == {i \in 1..Len(s) : s[i] = "\n"}
    IN  IF nl = {} THEN 0 ELSE MaxOf(nl)

\* str.split at newlines
RECURSIVE SplitLines(_)
SplitLines(s) ==
    LET nl == {i \in 1..Len(s) : s[i] = "\n"}
    IN  IF nl = {} THEN <<s>>
        ELSE LET i == MinOf(nl)
             IN  <<SubSeq(s, 1, i - 1)>> \o SplitLines(SubSeq(s, i + 1, Len(s)))

\* the join of lines with newlines
RECURSIVE JoinLines(_)
JoinLines(lines) ==
    IF Len(lines) = 0 THEN <<>>
    ELSE IF Len(lines) = 1 THEN lines[1]
    ELSE lines[1] \o <<"\n">> \o JoinLines(Tail(lines))

\* the concatenation of a sequence of texts
RECURSIVE Flatten(_)
Flatten(ps) == IF Len(ps) = 0 THEN <<>> ELSE Head(ps) \o Flatten(Tail(ps))

(***************************************************************************)
(* GooseFilter (LineMarkupStrip): the precompiled patterns.                *)
(***************************************************************************)
\* the backtick, which a TLA+ string cannot hold, is written as this character
BT == "^"

FENCE == <<BT, BT, BT>>

\* _HORIZONTAL_RULE.match(line): optional whitespace, one of - * _ repeated
\* three or more times, optional whitespace, end of line
IsHorizontalRule(line) ==
    \E a \in 1..Len(line) : \E b \in a..Len(line) :
        /\ \A k \in 1..(a - 1) : IsSpace(line[k])
        /\ line[a] \in {"-", "*", "_"}
        /\ b - a + 1 >= 3
        /\ \A k \in a..b : line[k] = line[a]
        /\ \A k \in (b + 1)..Len(line) : IsSpace(line[k])

\* the end of the shortest match of _BOLD (d doubled, one or more
\* characters, d doubled) that starts at i:
\* the position of the closing pair, 0 when the pattern does not match at i
BoldClose(s, i, d) ==
    IF ~MatchAt(s, i, <<d, d>>) THEN 0
    ELSE LET js == {j \in (i + 3)..(Len(s) - 1) :
                        /\ MatchAt(s, j, <<d, d>>)
                        /\ \A k \in (i + 2)..(j - 1) : s[k] # "\n"}
         IN  IF js = {} THEN 0 ELSE MinOf(js)

\* _BOLD.sub and _BOLD_UNDER.sub with the inner group, scanning from i
RECURSIVE SubBold(_, _, _)
SubBold(s, i, d) ==
    IF i > Len(s) THEN <<>>
    ELSE LET j == BoldClose(s, i, d)
         IN  IF j = 0 THEN <<s[i]>> \o SubBold(s, i + 1, d)
             ELSE SubSeq(s, i + 2, j - 1) \o SubBold(s, j + 2, d)

\* the closing marker of the shortest match of _ITALIC that starts at i (d not
\* after a word character and not before whitespace, one or more characters,
\* d not after whitespace and not before a word character), 0 when none
ItalicClose(s, i, d) ==
    IF ~(/\ i <= Len(s)
         /\ s[i] = d
         /\ (i = 1 \/ ~IsWord(s[i - 1]))
         /\ (i + 1 > Len(s) \/ ~IsSpace(s[i + 1])))
    THEN 0
    ELSE LET js == {j \in (i + 2)..Len(s) :
                        /\ s[j] = d
                        /\ ~IsSpace(s[j - 1])
                        /\ (j + 1 > Len(s) \/ ~IsWord(s[j + 1]))
                        /\ \A k \in (i + 1)..(j - 1) : s[k] # "\n"}
         IN  IF js = {} THEN 0 ELSE MinOf(js)

\* _ITALIC.sub and _ITALIC_UNDER.sub with the inner group, scanning from i
RECURSIVE SubItalic(_, _, _)
SubItalic(s, i, d) ==
    IF i > Len(s) THEN <<>>
    ELSE LET j == ItalicClose(s, i, d)
         IN  IF j = 0 THEN <<s[i]>> \o SubItalic(s, i + 1, d)
             ELSE SubSeq(s, i + 1, j - 1) \o SubItalic(s, j + 1, d)

\* the four substitutions of _transform_line, in the order of the source
StripMarkers(line) ==
    SubItalic(SubItalic(SubBold(SubBold(line, 1, "*"), 1, "_"), 1, "*"), 1, "_")

\* stripped.startswith of the fence delimiter
IsFenceLine(line) == MatchAt(Trim(line), 1, FENCE)

\* _transform_line with the horizontal-rule test moved above the fence tests
TransformLine_RuleFirst(line, fence) ==
    IF IsHorizontalRule(line) THEN [out |-> <<>>, fence |-> fence]
    ELSE IF IsFenceLine(line) THEN [out |-> line, fence |-> ~fence]
    ELSE IF fence THEN [out |-> line, fence |-> fence]
    ELSE [out |-> StripMarkers(line), fence |-> fence]

\* GooseFilter._transform_line: the line returned and the new _in_fence
TransformLine(line, fence) ==
    IF IsFenceLine(line) THEN [out |-> line, fence |-> ~fence]
    ELSE IF fence THEN [out |-> line, fence |-> fence]
    ELSE IF IsHorizontalRule(line) THEN [out |-> <<>>, fence |-> fence]
    ELSE [out |-> StripMarkers(line), fence |-> fence]

\* the loop of GooseFilter._transform over lines[i..], out accumulated
RECURSIVE TransformLoop(_, _, _, _)
TransformLoop(lines, i, fence, out) ==
    IF i > Len(lines) THEN [out |-> JoinLines(out), fence |-> fence]
    ELSE IF i = Len(lines) /\ lines[i] = <<>>
         THEN TransformLoop(lines, i + 1, fence, Append(out, lines[i]))
    ELSE LET r == TransformLine(lines[i], fence)
         IN  TransformLoop(lines, i + 1, r.fence, Append(out, r.out))

\* GooseFilter._transform(text) with _in_fence = fence
Transform(text, fence) == TransformLoop(SplitLines(text), 1, fence, <<>>)

\* feed without line buffering: whatever has arrived is transformed and emitted
FilterFeed_NoBuffer(buffer, fence, chunk) ==
    LET r == Transform(buffer \o chunk, fence)
    IN  [out |-> r.out, buffer |-> <<>>, fence |-> r.fence]

\* feed that cuts the buffer at its first newline (find for rfind)
FilterFeed_FirstNewline(buffer, fence, chunk) ==
    LET buf == buffer \o chunk
        nl == {i \in 1..Len(buf) : buf[i] = "\n"}
    IN  IF nl = {}
        THEN [out |-> <<>>, buffer |-> buf, fence |-> fence]
        ELSE LET r == Transform(SubSeq(buf, 1, MinOf(nl)), fence)
             IN  [out |-> r.out,
                  buffer |-> SubSeq(buf, MinOf(nl) + 1, Len(buf)),
                  fence |-> r.fence]

\* GooseFilter.feed on a filter (buffer, fence): what it returns and leaves
FilterFeed(buffer, fence, chunk) ==
    LET buf == buffer \o chunk
        last_nl == LastNewline(buf)
    IN  IF last_nl = 0
        THEN [out |-> <<>>, buffer |-> buf, fence |-> fence]
        ELSE LET r == Transform(SubSeq(buf, 1, last_nl), fence)
             IN  [out |-> r.out,
                  buffer |-> SubSeq(buf, last_nl + 1, Len(buf)),
                  fence |-> r.fence]

\* GooseFilter.flush
FilterFlush(buffer, fence) ==
    IF buffer = <<>>
    THEN [out |-> <<>>, buffer |-> buffer, fence |-> fence]
    ELSE LET r == Transform(buffer, fence)
         IN  [out |-> r.out, buffer |-> <<>>, fence |-> r.fence]

(***************************************************************************)
(* The state of one GooseFilter instance and of the text streamed to it.   *)
(***************************************************************************)
\* the fragments the streamed texts are concatenated from
TextPieces ==
    { <<BT, BT, BT, "\n">>,
      <<BT, BT, BT, "\n", "*", "*", "a", "*", "*", "\n">>,
      <<"*", "*", "a", "*", "*", "\n">>,
      <<"_", "b", "_">>,
      <<"-", "-", "-", "\n">>,
      <<" ">>,
      <<"*">> }

Texts ==
    UNION { {Flatten(ps) : ps \in [1..n -> TextPieces]} : n \in 0..MaxPieces }

\* GooseFilter.__init__, and the text the request will stream
FilterInit ==
    /\ ftext \in Texts
    /\ fpos = 0
    /\ fbuffer = <<>>
    /\ in_fence = FALSE
    /\ fouts = <<>>
    /\ lastOp = "new"
    /\ lastOut = <<>>
    /\ earlyFlush = 0
    /\ byChar = TRUE

\* feed(chunk) with the next k characters of the text
Feed(k) ==
    /\ fpos + k <= Len(ftext)
    /\ LET r == FilterFeed(fbuffer, in_fence, SubSeq(ftext, fpos + 1, fpos + k))
       IN  /\ fbuffer' = r.buffer
           /\ in_fence' = r.fence
           /\ fouts' = fouts \o r.out
           /\ lastOut' = r.out
    /\ fpos' = fpos + k
    /\ lastOp' = "feed"
    /\ byChar' = (byChar /\ k = 1)
    /\ UNCHANGED <<ftext, earlyFlush, agentVars, adapterVars, auxVars>>

\* flush()
Flush ==
    /\ fpos < Len(ftext) => earlyFlush < MaxEarlyFlush
    /\ LET r == FilterFlush(fbuffer, in_fence)
       IN  /\ fbuffer' = r.buffer
           /\ in_fence' = r.fence
           /\ fouts' = fouts \o r.out
           /\ lastOut' = r.out
    /\ lastOp' = "flush"
    /\ earlyFlush' = IF fpos < Len(ftext) THEN earlyFlush + 1 ELSE earlyFlush
    /\ UNCHANGED <<ftext, fpos, byChar, agentVars, adapterVars, auxVars>>

FilterNext ==
    \/ \E k \in 1..Len(ftext) : Feed(k)
    \/ Flush
(***************************************************************************)
(* The model adapters (images/gateway/adapters).                            *)
(*                                                                         *)
(* A raw message is a content text and a list of structured tool calls;    *)
(* content None and tool_calls None are the empty text and the empty list, *)
(* as the "or" of normalize_tool_calls makes them.  A tool call is its     *)
(* function name and its arguments, a dict written as a sequence of        *)
(* key-value pairs in insertion order.                                     *)
(***************************************************************************)
GT == <<">">>

QUOTE == <<"\"">>

THINK_OPEN == <<"<", "t", "h", "i", "n", "k", ">">>

THINK_CLOSE == <<"<", "/", "t", "h", "i", "n", "k", ">">>

FUNCTION_OPEN == <<"<", "f", "u", "n", "c", "t", "i", "o", "n", "=">>

FUNCTION_CLOSE == <<"<", "/", "f", "u", "n", "c", "t", "i", "o", "n", ">">>

PARAMETER_OPEN == <<"<", "p", "a", "r", "a", "m", "e", "t", "e", "r", "=">>

PARAMETER_CLOSE ==
    <<"<", "/", "p", "a", "r", "a", "m", "e", "t", "e", "r", ">">>

JSON_LABEL == <<"j", "s", "o", "n">>

NAME_KEY == <<"n", "a", "m", "e">>

ARGUMENTS_KEY == <<"a", "r", "g", "u", "m", "e", "n", "t", "s">>

\* dict assignment d[key] = value on a sequence of pairs
DictPut(d, key, value) ==
    IF \E i \in DOMAIN d : d[i][1] = key
    THEN [i \in DOMAIN d |-> IF d[i][1] = key THEN <<key, value>> ELSE d[i]]
    ELSE Append(d, <<key, value>>)

\* the first position j >= i where the literal lit starts, 0 when none
FindFrom(s, i, lit) ==
    LET js == {j \in i..Len(s) : MatchAt(s, j, lit)}
    IN  IF js = {} THEN 0 ELSE MinOf(js)

\* the text without the spans from start to stop of the matches ms (re.sub
\* with the empty replacement)
RemoveSpans(s, ms) ==
    LET Kept(i) == \A k \in DOMAIN ms : i < ms[k].start \/ i > ms[k].stop
        keep == SelectSeq([i \in 1..Len(s) |-> i], Kept)
    IN  [j \in 1..Len(keep) |-> s[keep[j]]]

(***************************************************************************)
(* adapters/qwen3.py: HermesXML                                            *)
(***************************************************************************)
\* the matches of _THINK_BLOCK (the opening tag, anything, lazily, the
\* closing tag; DOTALL) from position i on: an opening tag that no closing
\* tag follows matches nothing, and neither does any after it
RECURSIVE ThinkBlocks(_, _)
ThinkBlocks(s, i) ==
    LET o == FindFrom(s, i, THINK_OPEN)
        c == IF o = 0 THEN 0 ELSE FindFrom(s, o + Len(THINK_OPEN), THINK_CLOSE)
    IN  IF c = 0 THEN <<>>
        ELSE <<[start |-> o, stop |-> c + Len(THINK_CLOSE) - 1]>>
             \o ThinkBlocks(s, c + Len(THINK_CLOSE))

\* _strip_think_tags
StripThinkTags(text) == Trim(RemoveSpans(text, ThinkBlocks(text, 1)))

\* the match of a tag pair whose body runs, greedily, to the last closing tag
TagMatch_Greedy(s, i, open, close) ==
    LET n == i + Len(open)
        g == FindFrom(s, n, GT)
        cs == IF g = 0 THEN {} ELSE {j \in (g + 1)..Len(s) : MatchAt(s, j, close)}
        c == IF cs = {} THEN 0 ELSE MaxOf(cs)
    IN  IF MatchAt(s, i, open) /\ g > n /\ c > 0
        THEN [ok |-> TRUE, start |-> i, stop |-> c + Len(close) - 1,
              g1 |-> SubSeq(s, n, g - 1), g2 |-> SubSeq(s, g + 1, c - 1)]
        ELSE [ok |-> FALSE, start |-> i, stop |-> i, g1 |-> <<>>, g2 |-> <<>>]

\* the match of an opening tag (open, one or more characters other than >,
\* then >), anything lazily, and the closing tag, starting at i: the two
\* groups and the span; ok is false when the pattern does not match at i
TagMatch(s, i, open, close) ==
    LET n == i + Len(open)
        g == FindFrom(s, n, GT)
        c == IF g = 0 THEN 0 ELSE FindFrom(s, g + 1, close)
    IN  IF MatchAt(s, i, open) /\ g > n /\ c > 0
        THEN [ok |-> TRUE, start |-> i, stop |-> c + Len(close) - 1,
              g1 |-> SubSeq(s, n, g - 1), g2 |-> SubSeq(s, g + 1, c - 1)]
        ELSE [ok |-> FALSE, start |-> i, stop |-> i, g1 |-> <<>>, g2 |-> <<>>]

\* finditer of _FUNCTION_BLOCK or _PARAMETER from position i on: the scan
\* goes from one opening tag to the next
RECURSIVE TagMatches(_, _, _, _)
TagMatches(s, i, open, close) ==
    LET o == FindFrom(s, i, open)
        m == TagMatch(s, o, open, close)
    IN  IF o = 0 THEN <<>>
        ELSE IF m.ok THEN <<m>> \o TagMatches(s, m.stop + 1, open, close)
        ELSE TagMatches(s, o + 1, open, close)

\* the args dict built from the parameter matches ps[k..]
RECURSIVE ParamDict(_, _, _)
ParamDict(ps, k, args) ==
    IF k > Len(ps) THEN args
    ELSE ParamDict(ps, k + 1, DictPut(args, Trim(ps[k].g1), ps[k].g2))

\* the call of one function-block match: the trimmed name and the args
XmlCall(m) ==
    [name |-> Trim(m.g1),
     arguments |-> ParamDict(TagMatches(m.g2, 1, PARAMETER_OPEN, PARAMETER_CLOSE),
                             1, <<>>)]

\* the calls of the function-block matches ms and the text without them
XmlParsed(text, ms) ==
    [calls |-> [k \in DOMAIN ms |-> XmlCall(ms[k])],
     cleaned |-> Trim(RemoveSpans(text, ms))]

\* _parse_xml_tool_calls: the calls and the cleaned content
ParseXmlToolCalls(text) ==
    XmlParsed(text, TagMatches(text, 1, FUNCTION_OPEN, FUNCTION_CLOSE))

\* the calls of a list whose name is in names, in order
RECURSIVE SelectCalls(_, _)
SelectCalls(calls, names) ==
    IF calls = <<>> THEN <<>>
    ELSE (IF Head(calls).name \in names THEN <<Head(calls)>> ELSE <<>>)
         \o SelectCalls(Tail(calls), names)

\* ModelAdapter._filter_hallucinated (adapters/base.py): no valid names
\* means no filtering
FilterHallucinated(tool_calls, valid_names) ==
    IF valid_names = {} THEN tool_calls ELSE SelectCalls(tool_calls, valid_names)

\* the loop of normalize_tool_calls that keeps the parsed calls named in
\* valid_names
RecoverValid_Unchecked(parsed, valid_names) == parsed

RecoverValid(parsed, valid_names) == SelectCalls(parsed, valid_names)

\* the recovery branch of normalize_tool_calls, on the content after
\* _strip_think_tags and its parse p: the recovered calls with the cleaned
\* content, or else the stripped content when it differs from the original
Qwen3Recovered(msg, content, p, recovered) ==
    IF p.calls # <<>> /\ recovered # <<>>
    THEN [content |-> p.cleaned, tool_calls |-> recovered]
    ELSE IF content # msg.content
    THEN [content |-> content, tool_calls |-> msg.tool_calls]
    ELSE msg

Qwen3Parsed(msg, valid_names, content, p) ==
    Qwen3Recovered(msg, content, p, RecoverValid(p.calls, valid_names))

Qwen3Recover(msg, valid_names, content) ==
    Qwen3Parsed(msg, valid_names, content, ParseXmlToolCalls(content))

\* Qwen3Adapter.normalize_tool_calls
\* normalize_tool_calls passing structured calls on unfiltered
Qwen3Normalize_Unfiltered(msg, valid_names) ==
    IF msg.tool_calls # <<>>
    THEN [content |-> StripThinkTags(msg.content), tool_calls |-> msg.tool_calls]
    ELSE IF msg.content = <<>> THEN msg
    ELSE Qwen3Recover(msg, valid_names, StripThinkTags(msg.content))

Qwen3Normalize(msg, valid_names) ==
    IF msg.tool_calls # <<>>
    THEN [content |-> StripThinkTags(msg.content),
          tool_calls |-> FilterHallucinated(msg.tool_calls, valid_names)]
    ELSE IF msg.content = <<>> THEN msg
    ELSE Qwen3Recover(msg, valid_names, StripThinkTags(msg.content))

(***************************************************************************)
(* adapters/base.py: Base                                                  *)
(***************************************************************************)
\* ModelAdapter.normalize_tool_calls: structured calls are filtered, the
\* content is never touched
BaseNormalize(msg, valid_names) ==
    IF msg.tool_calls # <<>>
    THEN [content |-> msg.content,
          tool_calls |-> FilterHallucinated(msg.tool_calls, valid_names)]
    ELSE msg

(***************************************************************************)
(* adapters/qwen25coder.py: FencedJSON                                     *)
(***************************************************************************)
\* the first position >= i that holds no whitespace (Len(s) + 1 at the end)
SkipSpace(s, i) ==
    LET js == {j \in i..Len(s) : ~IsSpace(s[j])}
    IN  IF js = {} THEN Len(s) + 1 ELSE MinOf(js)

JFail == [ok |-> FALSE, next |-> 0, t |-> "none", v |-> <<>>]

\* a JSON string without escapes that starts at i
JsonString(s, i) ==
    LET c == FindFrom(s, i + 1, QUOTE)
    IN  IF i <= Len(s) /\ s[i] = "\"" /\ c > 0
        THEN [ok |-> TRUE, next |-> c + 1, t |-> "str", v |-> SubSeq(s, i + 1, c - 1)]
        ELSE JFail

\* a JSON number (digits) that starts at i
JsonNumber(s, i) ==
    LET js == {j \in i..(Len(s) + 1) : j > Len(s) \/ s[j] \notin Digits}
        e == MinOf(js)
    IN  IF i <= Len(s) /\ e > i
        THEN [ok |-> TRUE, next |-> e, t |-> "num", v |-> SubSeq(s, i, e - 1)]
        ELSE JFail

\* json.loads of the object that starts at i: its members as key-value
\* pairs, each value tagged string, number or object
RECURSIVE JsonObject(_, _)
RECURSIVE JsonMembers(_, _, _)
JsonValue(s, i) ==
    IF i > Len(s) THEN JFail
    ELSE IF s[i] = "\"" THEN JsonString(s, i)
    ELSE IF s[i] = "{" THEN JsonObject(s, i)
    ELSE JsonNumber(s, i)

\* after a member: the closing brace ends the object, a comma brings the
\* next member
MembersNext(s, after, pairs) ==
    IF after > Len(s) THEN JFail
    ELSE IF s[after] = "}"
    THEN [ok |-> TRUE, next |-> after + 1, t |-> "obj", v |-> pairs]
    ELSE IF s[after] = "," THEN JsonMembers(s, SkipSpace(s, after + 1), pairs)
    ELSE JFail

\* the member with the key and the parsed value val joins the pairs in acc
MembersValue(s, key, val, acc) ==
    IF ~val.ok THEN JFail
    ELSE MembersNext(s, SkipSpace(s, val.next),
                     Append(acc, <<key, [t |-> val.t, v |-> val.v]>>))

\* the member whose parsed key is k: a colon and a value follow
MembersKey(s, k, colon, acc) ==
    IF ~k.ok \/ colon > Len(s) THEN JFail
    ELSE IF s[colon] # ":" THEN JFail
    ELSE MembersValue(s, k.v, JsonValue(s, SkipSpace(s, colon + 1)), acc)

\* the members from position i on, after the pairs in acc, up to the brace
JsonMembers(s, i, acc) ==
    MembersKey(s, JsonString(s, i), SkipSpace(s, JsonString(s, i).next), acc)

JsonObject(s, i) ==
    IF i < 1 \/ i > Len(s) THEN JFail
    ELSE IF s[i] # "{" \/ SkipSpace(s, i + 1) > Len(s) THEN JFail
    ELSE IF s[SkipSpace(s, i + 1)] = "}"
    THEN [ok |-> TRUE, next |-> SkipSpace(s, i + 1) + 1, t |-> "obj", v |-> <<>>]
    ELSE JsonMembers(s, SkipSpace(s, i + 1), <<>>)

\* dict.get on the pairs of a parsed object: the value tagged none when the
\* key is absent
JsonGet(pairs, key) ==
    LET ks == {i \in DOMAIN pairs : pairs[i][1] = key}
    IN  IF ks = {} THEN [t |-> "none", v |-> <<>>] ELSE pairs[MaxOf(ks)][2]

NoToolObject(i) ==
    [ok |-> FALSE, start |-> i, stop |-> i, name |-> <<>>, arguments |-> <<>>]

\* an object with a name key taken as a tool call whatever else it holds
AsToolObject_NameOnly(o, i) ==
    IF ~o.ok THEN NoToolObject(i)
    ELSE IF JsonGet(o.v, NAME_KEY).t = "str"
    THEN [ok |-> TRUE, start |-> i, stop |-> o.next - 1,
          name |-> JsonGet(o.v, NAME_KEY).v, arguments |-> <<>>]
    ELSE NoToolObject(i)

\* the parsed object o that starts at i, as a tool call: it has a name key
\* that holds a string and an arguments key that holds an object
AsToolObject(o, i) ==
    IF ~o.ok THEN NoToolObject(i)
    ELSE IF JsonGet(o.v, NAME_KEY).t = "str" /\ JsonGet(o.v, ARGUMENTS_KEY).t = "obj"
    THEN [ok |-> TRUE, start |-> i, stop |-> o.next - 1,
          name |-> JsonGet(o.v, NAME_KEY).v,
          arguments |-> JsonGet(o.v, ARGUMENTS_KEY).v]
    ELSE NoToolObject(i)

\* a tool-call object that starts at i
ToolObject(s, i) == AsToolObject(JsonObject(s, i), i)

\* where the object of a fenced block that starts at i begins: after the
\* fence, an optional json label and whitespace
FenceBody(s, i) ==
    SkipSpace(s, IF MatchAt(s, i + Len(FENCE), JSON_LABEL)
                 THEN i + Len(FENCE) + Len(JSON_LABEL) ELSE i + Len(FENCE))

\* the tool-call object o inside the fence that starts at i, when whitespace
\* and the closing fence follow it
AsFencedToolObject(s, i, o) ==
    IF MatchAt(s, i, FENCE) /\ o.ok /\ MatchAt(s, SkipSpace(s, o.stop + 1), FENCE)
    THEN [o EXCEPT !.start = i,
                   !.stop = SkipSpace(s, o.stop + 1) + Len(FENCE) - 1]
    ELSE NoToolObject(i)

\* a fenced block (the fence, an optional json label, whitespace, one tool-
\* call object, whitespace, the fence) that starts at i
FencedToolObject(s, i) == AsFencedToolObject(s, i, ToolObject(s, FenceBody(s, i)))

\* the next position from i on where a fence or a brace starts, 0 when none
NextStart(s, i) ==
    LET starts == {j \in i..Len(s) : s[j] = "{" \/ MatchAt(s, j, FENCE)}
    IN  IF starts = {} THEN 0 ELSE MinOf(starts)

\* _extract_tool_objects: the fenced and the bare tool-call objects of the
\* text from position i on, in source order, an object inside a fenced
\* block counted once; the scan goes from one fence or brace to the next.
\* Fences pair up from left to right: the fence that closes a block holding
\* no tool-call object (shut, 0 when none) opens no block of its own.
RECURSIVE ExtractToolObjects(_, _, _)
\* the scan taking fenced objects alone
ExtractFrom_FencedOnly(s, n, shut, f, o) ==
    IF n = 0 THEN <<>>
    ELSE IF n = shut THEN ExtractToolObjects(s, n + Len(FENCE), 0)
    ELSE IF f.ok THEN <<f>> \o ExtractToolObjects(s, f.stop + 1, 0)
    ELSE IF MatchAt(s, n, FENCE)
    THEN ExtractToolObjects(s, n + Len(FENCE), FindFrom(s, n + Len(FENCE), FENCE))
    ELSE ExtractToolObjects(s, n + 1, shut)

ExtractFrom(s, n, shut, f, o) ==
    IF n = 0 THEN <<>>
    ELSE IF n = shut THEN ExtractToolObjects(s, n + Len(FENCE), 0)
    ELSE IF f.ok THEN <<f>> \o ExtractToolObjects(s, f.stop + 1, 0)
    ELSE IF o.ok THEN <<o>> \o ExtractToolObjects(s, o.stop + 1, shut)
    ELSE IF MatchAt(s, n, FENCE)
    THEN ExtractToolObjects(s, n + Len(FENCE), FindFrom(s, n + Len(FENCE), FENCE))
    ELSE ExtractToolObjects(s, n + 1, shut)

ExtractToolObjects(s, i, shut) ==
    ExtractFrom(s, NextStart(s, i), shut,
                FencedToolObject(s, NextStart(s, i)), ToolObject(s, NextStart(s, i)))

\* the function entries of the extracted objects
AsToolCalls(cs) ==
    [k \in DOMAIN cs |-> [name |-> cs[k].name, arguments |-> cs[k].arguments]]

\* the message with the recovered calls and the extracted objects removed
\* from its content, or the message itself when nothing was recovered
Qwen25CoderRecovered(msg, cs, recovered) ==
    IF recovered # <<>>
    THEN [content |-> Trim(RemoveSpans(msg.content, cs)), tool_calls |-> recovered]
    ELSE msg

Qwen25CoderRecover(msg, valid_names, cs) ==
    Qwen25CoderRecovered(msg, cs, RecoverValid(AsToolCalls(cs), valid_names))

\* Qwen25CoderAdapter.normalize_tool_calls
Qwen25CoderNormalize(msg, valid_names) ==
    IF msg.tool_calls # <<>>
    THEN [content |-> msg.content,
          tool_calls |-> FilterHallucinated(msg.tool_calls, valid_names)]
    ELSE Qwen25CoderRecover(msg, valid_names, ExtractToolObjects(msg.content, 1, 0))

\* the adapter variant's normalize_tool_calls
NormalizeToolCalls(variant, msg, valid_names) ==
    CASE variant = "HermesXML" -> Qwen3Normalize(msg, valid_names)
      [] variant = "FencedJSON" -> Qwen25CoderNormalize(msg, valid_names)
      [] OTHER -> BaseNormalize(msg, valid_names)

(***************************************************************************)
(* Normalization of one raw message.  The content is written piece by      *)
(* piece: prose, reasoning spans, well-formed calls of either encoding and *)
(* markup that is no call.                                                 *)
(***************************************************************************)
MaxContentPieces == 3

Search == <<"s", "e", "a", "r", "c", "h">>

ReadFile == <<"r", "e", "a", "d">>

FakeTool == <<"f", "a", "k", "e">>

XmlSearch ==
    <<"<", "f", "u", "n", "c", "t", "i", "o", "n", "=", "s", "e", "a", "r",
      "c", "h", ">", "<", "p", "a", "r", "a", "m", "e", "t", "e", "r", "=",
      "q", ">", "x", "<", "/", "p", "a", "r", "a", "m", "e", "t", "e", "r",
      ">", "<", "/", "f", "u", "n", "c", "t", "i", "o", "n", ">">>

XmlRead ==
    <<"<", "f", "u", "n", "c", "t", "i", "o", "n", "=", " ", "r", "e", "a",
      "d", " ", ">", "\n", "<", "p", "a", "r", "a", "m", "e", "t", "e", "r",
      "=", " ", "p", " ", ">", "a", "\n", "b", "<", "/", "p", "a", "r", "a",
      "m", "e", "t", "e", "r", ">", "\n", "<", "/", "f", "u", "n", "c", "t",
      "i", "o", "n", ">">>

XmlFake ==
    <<"<", "f", "u", "n", "c", "t", "i", "o", "n", "=", "f", "a", "k", "e",
      ">", "<", "/", "f", "u", "n", "c", "t", "i", "o", "n", ">">>

XmlUnclosed ==
    <<"<", "f", "u", "n", "c", "t", "i", "o", "n", "=", "s", "e", "a", "r",
      "c", "h", ">">>

ThinkLine ==
    <<"<", "t", "h", "i", "n", "k", ">", "x", "<", "/", "t", "h", "i", "n",
      "k", ">">>

ThinkCall ==
    <<"<", "t", "h", "i", "n", "k", ">", "\n", "<", "f", "u", "n", "c", "t",
      "i", "o", "n", "=", "s", "e", "a", "r", "c", "h", ">", "<", "/", "f",
      "u", "n", "c", "t", "i", "o", "n", ">", "\n", "<", "/", "t", "h", "i",
      "n", "k", ">", "\n">>

\* a reasoning span written inside the letters of an opening tag
ThinkSplit ==
    <<"<", "t", "h", "i", "<", "t", "h", "i", "n", "k", ">", "x", "<", "/",
      "t", "h", "i", "n", "k", ">", "n", "k", ">", "y", "<", "/", "t", "h",
      "i", "n", "k", ">">>

Greeting == <<"H", "i", " ">>

JsonFenced ==
    <<BT, BT, BT, "j", "s", "o", "n", "\n", "{", "\"", "n", "a", "m", "e",
      "\"", ":", " ", "\"", "s", "e", "a", "r", "c", "h", "\"", ",", " ",
      "\"", "a", "r", "g", "u", "m", "e", "n", "t", "s", "\"", ":", " ", "{",
      "\"", "q", "\"", ":", " ", "\"", "x", "\"", "}", "}", "\n", BT, BT, BT>>

JsonBare ==
    <<"{", "\"", "n", "a", "m", "e", "\"", ":", " ", "\"", "r", "e", "a",
      "d", "\"", ",", " ", "\"", "a", "r", "g", "u", "m", "e", "n", "t", "s",
      "\"", ":", " ", "{", "\"", "n", "\"", ":", " ", "5", "}", "}">>

JsonFake ==
    <<"{", "\"", "n", "a", "m", "e", "\"", ":", " ", "\"", "f", "a", "k",
      "e", "\"", ",", " ", "\"", "a", "r", "g", "u", "m", "e", "n", "t", "s",
      "\"", ":", " ", "{", "}", "}">>

JsonOther ==
    <<"{", "\"", "p", "o", "r", "t", "\"", ":", " ", "5", "4", "3", "2", "}">>

JsonBroken ==
    <<"{", "\"", "n", "a", "m", "e", "\"", ":", " ", "\"", "s", "e", "a",
      "r", "c", "h", "\"", ",", " ", "\"", "a", "r", "g", "u", "m", "e", "n",
      "t", "s", "\"", ":", " ", "{">>

\* an object with a name and no arguments
JsonNameOnly ==
    <<"{", "\"", "n", "a", "m", "e", "\"", ":", " ", "\"", "s", "e", "a",
      "r", "c", "h", "\"", "}">>

\* a fenced object that is no tool call
JsonFencedOther ==
    <<BT, BT, BT, "j", "s", "o", "n", "\n", "{", "\"", "p", "o", "r", "t",
      "\"", ":", " ", "5", "4", "3", "2", "}", "\n", BT, BT, BT>>

Piece(kind, text, name, arguments) ==
    [kind |-> kind, text |-> text, name |-> name, arguments |-> arguments]

XmlPieces ==
    { Piece("prose", Greeting, <<>>, <<>>),
      Piece("call", XmlSearch, Search, << <<<<"q">>, <<"x">>>> >>),
      Piece("call", XmlRead, ReadFile, << <<<<"p">>, <<"a", "\n", "b">>>> >>),
      Piece("call", XmlFake, FakeTool, <<>>),
      Piece("think", ThinkLine, <<>>, <<>>),
      Piece("think", ThinkCall, <<>>, <<>>),
      Piece("other", XmlUnclosed, <<>>, <<>>),
      Piece("other", ThinkSplit, <<>>, <<>>) }

JsonPieces ==
    { Piece("prose", Greeting, <<>>, <<>>),
      Piece("call", JsonFenced, Search,
            << <<<<"q">>, [t |-> "str", v |-> <<"x">>]>> >>),
      Piece("call", JsonBare, ReadFile,
            << <<<<"n">>, [t |-> "num", v |-> <<"5">>]>> >>),
      Piece("call", JsonFake, FakeTool, <<>>),
      Piece("other", JsonOther, <<>>, <<>>),
      Piece("other", JsonBroken, <<>>, <<>>),
      Piece("other", JsonNameOnly, <<>>, <<>>),
      Piece("other", JsonFencedOther, <<>>, <<>>) }

BasePieces ==
    { Piece("prose", Greeting, <<>>, <<>>),
      Piece("call", XmlSearch, Search, << <<<<"q">>, <<"x">>>> >>),
      Piece("think", ThinkLine, <<>>, <<>>) }

Variants == {"Base", "HermesXML", "FencedJSON"}

PiecesOf(v) ==
    CASE v = "HermesXML" -> XmlPieces
      [] v = "FencedJSON" -> JsonPieces
      [] OTHER -> BasePieces

ToolCall(name) == [name |-> name, arguments |-> <<>>]

StructuredCalls ==
    { <<>>,
      <<ToolCall(Search)>>,
      <<ToolCall(FakeTool), ToolCall(Search)>>,
      <<ToolCall(Search), ToolCall(FakeTool), ToolCall(ReadFile)>> }

ValidNameSets == { {}, {Search}, {Search, ReadFile} }

PieceTexts(ps) == Flatten([k \in DOMAIN ps |-> ps[k].text])

AdapterInit ==
    /\ adapter \in Variants
    /\ apieces \in UNION {[1..n -> PiecesOf(adapter)] : n \in 0..MaxContentPieces}
    /\ \E calls \in StructuredCalls :
           ollama_msg = [content |-> PieceTexts(apieces), tool_calls |-> calls]
    /\ tool_names \in ValidNameSets
    /\ result = ollama_msg
    /\ normalized = FALSE

\* adapter.normalize_tool_calls(ollama_msg, tool_names)
Normalize ==
    /\ ~normalized
    /\ result' = NormalizeToolCalls(adapter, ollama_msg, tool_names)
    /\ normalized' = TRUE
    /\ UNCHANGED <<adapter, apieces, ollama_msg, tool_names, agentVars, filterVars, auxVars>>

AdapterNext == Normalize

(***************************************************************************)
(* select_adapter (images/gateway/adapters/__init__.py): the rules are     *)
(* tried in order, the first whose pattern occurs in the model identifier  *)
(* gives the adapter, and the adapter made for an identifier is cached.    *)
(***************************************************************************)
CoderPattern ==
    <<"q", "w", "e", "n", "2", ".", "5", "-", "c", "o", "d", "e", "r">>

FamilyPattern == <<"q", "w", "e", "n", "3">>

Rule(pattern, variant) == [pattern |-> pattern, adapter |-> variant]

\* the family rule tried before the coder rule
ADAPTER_RULES_FamilyFirst ==
    <<Rule(FamilyPattern, "HermesXML"), Rule(CoderPattern, "FencedJSON")>>

\* the rules in their priority order: the coder family before the generic one
ADAPTER_RULES ==
    <<Rule(CoderPattern, "FencedJSON"), Rule(FamilyPattern, "HermesXML")>>

RuleMatches(rule, model) == FindFrom(model, 1, rule.pattern) # 0

RECURSIVE FirstMatch(_, _)
FirstMatch(rules, model) ==
    IF rules = <<>> THEN "Base"
    ELSE IF RuleMatches(Head(rules), model) THEN Head(rules).adapter
    ELSE FirstMatch(Tail(rules), model)

Coder14b == CoderPattern \o <<":", "1", "4", "b">>
Coder7b == CoderPattern \o <<":", "7", "b">>
Qwen3_14b == FamilyPattern \o <<":", "1", "4", "b">>
Llama3_8b == <<"l", "l", "a", "m", "a", "3", ":", "8", "b">>
CacheModel1b ==
    <<"t", "e", "s", "t", "-", "c", "a", "c", "h", "e", "-", "m", "o", "d",
      "e", "l", ":", "1", "b">>
\* an identifier both patterns occur in
Qwen3Coder == FamilyPattern \o <<"-">> \o CoderPattern

ModelIds == {Coder14b, Coder7b, Qwen3_14b, Llama3_8b, CacheModel1b, Qwen3Coder}

NoCall == [model |-> <<>>, instance |-> 0]

SelectorInit ==
    /\ adapter_cache = [m \in {} |-> 0]
    /\ instances = <<>>
    /\ selected = NoCall

\* select_adapter(model): instances[k] is the variant of the k-th adapter made
select_adapter(model) ==
    /\ IF model \in DOMAIN adapter_cache
       THEN /\ selected' = [model |-> model, instance |-> adapter_cache[model]]
            /\ UNCHANGED <<adapter_cache, instances>>
       ELSE /\ instances' = Append(instances, FirstMatch(ADAPTER_RULES, model))
            /\ adapter_cache' = adapter_cache @@ (model :> Len(instances) + 1)
            /\ selected' = [model |-> model, instance |-> Len(instances) + 1]
    /\ UNCHANGED exceptSelector

SelectorNext == \E model \in ModelIds : select_adapter(model)
(***************************************************************************)
(* The agent orchestration graph (images/agent/graph.py) and its nodes.    *)
(*                                                                         *)
(* AgentState is a Python dict: a function whose domain is the set of keys *)
(* present.  The replies of the completion model and the results of the    *)
(* other collaborators are the inputs of the node actions.                 *)
(***************************************************************************)
\* Python None
None == "None"

\* a JSON key that the reply does not hold
Missing == "<missing>"

\* state.get(key, default)
Get(state, key, default) == IF key \in DOMAIN state THEN state[key] ELSE default

\* the returned dict taking the place of the state
Merge_Replacing(state, patch) == patch

\* the merge of a node's returned dict into the state (total=False TypedDict)
Merge(state, patch) ==
    [k \in DOMAIN state \cup DOMAIN patch |->
        IF k \in DOMAIN patch THEN patch[k] ELSE state[k]]

\* truthiness of an optional string
Truthy(v) == v \notin {None, ""}

\* what a node does: it returns a patch or an exception leaves it; called
\* tells whether the node invoked the completion model
Returned(patch, called) == [raised |-> FALSE, patch |-> patch, called |-> called]

Raised(called) == [raised |-> TRUE, patch |-> <<>>, called |-> called]

\* float(x) on the classes of JSON value a reply may hold for a number:
\* a number or a numeric string converts, another string is a ValueError,
\* null or a list is a TypeError
PyFloat(x) ==
    CASE x.t = "num" -> [exc |-> "none", val |-> x.v]
      [] x.t = "numstr" -> [exc |-> "none", val |-> x.v]
      [] x.t = "text" -> [exc |-> "ValueError", val |-> 0]
      [] OTHER -> [exc |-> "TypeError", val |-> 0]

JNum(v) == [t |-> "num", v |-> v]

JText == [t |-> "text", v |-> 0]

JNull == [t |-> "null", v |-> 0]

JMissing == [t |-> "missing", v |-> 0]

\* data.get(key, default) followed by float(): confidences and scores are
\* held in hundredths
FloatOf(x, default) == IF x.t = "missing" THEN [exc |-> "none", val |-> default]
                       ELSE PyFloat(x)

(***************************************************************************)
(* interpreter_node                                                        *)
(***************************************************************************)
Intents == {"learning", "question", "followup", "command"}

FastapiUrl == "https://fastapi.tiangolo.com/"

\* the JSON values a reply may hold for entities: a list of strings, or null
EntList(names) == [t |-> "list", v |-> names]

EntNull == [t |-> "null", v |-> <<>>]

Messages == {"learn the fastapi docs", "what is a monad"}

\* the replies of the completion model to INTENT_PROMPT, by what json.loads
\* makes of them: no JSON at all, JSON that is no object, or an object
InterpreterReplies ==
    {[kind |-> "garbage"], [kind |-> "nonobject"], [kind |-> "unavailable"]}
    \cup
    [kind : {"object"},
     intent : Intents \cup {"chitchat", Missing},
     confidence : {JNum(90), JText, JNull},
     entities : {EntList(<<>>), EntList(<<"fastapi">>)},
     inferred_url : {None, FastapiUrl}]
    \cup
    \* objects whose inferred_url is the empty string
    [kind : {"object"}, intent : {"learning", "command"}, confidence : {JNum(90)},
     entities : {EntList(<<>>)}, inferred_url : {""}]
    \cup
    \* objects whose entities are null
    [kind : {"object"}, intent : {"learning", "command"}, confidence : {JNum(90)},
     entities : {EntNull}, inferred_url : {None}]

\* the except branch of interpreter_node
DefaultInterpretation ==
    [intent_type |-> "question", confidence |-> 50,
     entities |-> EntList(<<>>), inferred_url |-> None]

\* interpreter_node: only JSONDecodeError and ValueError are caught
InterpreterNode(state, reply) ==
    IF reply.kind = "unavailable" THEN Raised(TRUE)
    ELSE IF reply.kind = "garbage" THEN Returned(DefaultInterpretation, TRUE)
    ELSE IF reply.kind = "nonobject" THEN Raised(TRUE)
    ELSE LET c == FloatOf(reply.confidence, 50)
         IN  IF c.exc = "TypeError" THEN Raised(TRUE)
             ELSE IF c.exc = "ValueError"
                  THEN Returned(DefaultInterpretation, TRUE)
             ELSE Returned(
                    [intent_type |-> IF reply.intent = Missing THEN "question"
                                     ELSE reply.intent,
                     confidence |-> c.val,
                     entities |-> reply.entities,
                     inferred_url |-> reply.inferred_url], TRUE)

(***************************************************************************)
(* decision_node and route_after_decision                                  *)
(***************************************************************************)
\* replies to DECISION_PROMPT, and response.strip().lower() of each
DecisionReplies ==
    {"crawl", " Crawl\n", "resolve_context", "research", "execute",
     "I would research", "unavailable"}

StripLower(reply) == IF reply = " Crawl\n" THEN "crawl" ELSE reply

valid_actions == {"crawl", "resolve_context", "research", "execute"}

decision_node(state, reply) ==
    LET intent_type == Get(state, "intent_type", "question")
        inferred_url == Get(state, "inferred_url", None)
    IN  IF intent_type = "learning" /\ Truthy(inferred_url)
        THEN Returned([next_action |-> "crawl"], FALSE)
        ELSE IF intent_type = "followup"
        THEN Returned([next_action |-> "resolve_context"], FALSE)
        ELSE IF intent_type = "question"
        THEN Returned([next_action |-> "research"], FALSE)
        ELSE IF reply = "unavailable" THEN Raised(TRUE)
        ELSE LET action == StripLower(reply)
             IN  Returned([next_action |->
                              IF action \in valid_actions THEN action
                              ELSE "research"], TRUE)

\* route_after_decision returning next_action as it is
route_after_decision_AsIs(state) == Get(state, "next_action", "research")

route_after_decision(state) ==
    LET action == Get(state, "next_action", "research")
    IN  IF action = "crawl" THEN "crawl"
        ELSE IF action = "resolve_context" THEN "resolve_context"
        ELSE "research"

(***************************************************************************)
(* ingest_node, by the outcome of the crawl                                *)
(***************************************************************************)
\* the most pages a crawl of the model indexes
MaxIndexed == 2

\* the keywords of DOC_URL_PATTERNS that a text mentions
Mentions(text) ==
    IF text \in {"fastapi", "learn the fastapi docs"} THEN {"fastapi"} ELSE {}

\* _infer_url_from_entities, of a list of entities
InferUrlFromEntities(entities, message) ==
    IF Mentions(message) \cup UNION {Mentions(entities[i]) : i \in DOMAIN entities}
           # {}
    THEN FastapiUrl ELSE None

\* _url_to_collection_name
UrlToCollectionName(url) ==
    IF url = FastapiUrl THEN "fastapi_tiangolo_com" ELSE "collection"

\* what _crawl_and_index does: it raises, or returns the number indexed
CrawlOutcomes == [raised : {TRUE}, indexed : {0}]
                 \cup [raised : {FALSE}, indexed : 0..MaxIndexed]

\* what ingest_node returns when the search for a URL has not raised
IngestResult(state, crawl) ==
    LET inferred_url == Get(state, "inferred_url", None)
        entities == Get(state, "entities", EntList(<<>>))
        url == IF Truthy(inferred_url) THEN inferred_url
               ELSE InferUrlFromEntities(entities.v, Get(state, "message", ""))
    IN  IF ~Truthy(url)
        THEN Returned([ingestion_status |-> "failed",
                       ingestion_message |->
                           <<"Could not determine documentation URL to index.">>,
                       pages_indexed |-> 0], FALSE)
        ELSE IF crawl.raised
        THEN Returned([ingestion_status |-> "failed",
                       ingestion_message |-> <<"Failed to index ", url>>,
                       pages_indexed |-> 0], FALSE)
        ELSE Returned([ingestion_status |-> "success",
                       ingestion_message |->
                           <<"Indexed ", ToString(crawl.indexed), " pages from ", url>>,
                       pages_indexed |-> crawl.indexed,
                       collection_name |-> UrlToCollectionName(url)], FALSE)

\* ingest_node: the search for a URL in the entities is outside the try, and
\* entities + [message] is a TypeError when entities is no list
ingest_node(state, crawl) ==
    LET inferred_url == Get(state, "inferred_url", None)
        entities == Get(state, "entities", EntList(<<>>))
    IN  IF ~Truthy(inferred_url) /\ entities.t # "list" THEN Raised(FALSE)
        ELSE IngestResult(state, crawl)

\* ingest_then_synthesize, the narrative of a success without the page count
ingest_then_synthesize_NoCount(state) ==
    LET status == Get(state, "ingestion_status", "")
        message == Get(state, "ingestion_message", <<>>)
        collection == Get(state, "collection_name", "")
    IN  Returned(
            [draft_response |->
                 IF status = "success"
                 THEN <<"I've indexed the documentation you requested. Stored in the '",
                        collection, "' collection.">>
                 ELSE <<"I encountered an issue while indexing: ">> \o message,
             is_approved |-> TRUE], FALSE)

\* ingest_then_synthesize
ingest_then_synthesize(state) ==
    LET status == Get(state, "ingestion_status", "")
        message == Get(state, "ingestion_message", <<>>)
        pages == Get(state, "pages_indexed", 0)
        collection == Get(state, "collection_name", "")
    IN  Returned(
            [draft_response |->
                 IF status = "success"
                 THEN <<"I've indexed the documentation you requested. Processed ",
                        ToString(pages), " pages and stored them in the '",
                        collection, "' collection.">>
                 ELSE <<"I encountered an issue while indexing: ">> \o message,
             is_approved |-> TRUE], FALSE)

(***************************************************************************)
(* research_node: what it gathers from what the collaborators returned,    *)
(* and the summary of it                                                   *)
(***************************************************************************)
\* a call of a collaborator returned v, or raised
Ok(v) == [ok |-> TRUE, v |-> v]

Err == [ok |-> FALSE, v |-> <<>>]

\* collections[:3]
CollectionLimit == 3

\* limit=3 of qdrant.search
HitLimit == 3

\* web_results[:5]
WebLimit == 5

\* the most results a web search of the model returns
MaxWebResults == 6

Prefix(seq, n) == SubSeq(seq, 1, IF Len(seq) < n THEN Len(seq) ELSE n)

\* the k-th hit qdrant.search returns for a collection
QdrantHit(collection, k) ==
    [text |-> IF collection = "docs" THEN "stored text" ELSE collection \o " text",
     url |-> "http://" \o collection \o "/" \o ToString(k)]

QdrantHits(collection, n) == [k \in 1..n |-> QdrantHit(collection, k)]

\* the k-th result searxng.search returns
WebResult(k) ==
    [content |-> IF k = 1 THEN "web text" ELSE "web text " \o ToString(k),
     url |-> "http://web/" \o ToString(k)]

WebResults(n) == [k \in 1..n |-> WebResult(k)]

\* a result without content and without url
BlankResult == [content |-> "", url |-> ""]

\* the entry of research_results made of a hit of a collection (the score
\* is left out)
RagEntry(collection, hit) ==
    [source |-> "rag:" \o collection, content |-> hit.text, url |-> hit.url]

\* the entry made of a web result (the title is left out)
WebEntry(r) == [source |-> "web", content |-> r.content, url |-> r.url]

\* the entries of the hits of one collection; a search that raises is skipped
CollectionEntries(collab, collection) ==
    LET found == collab.search[collection]
    IN  IF found.ok
        THEN [k \in DOMAIN found.v |-> RagEntry(collection, found.v[k])]
        ELSE <<>>

\* the vector-store part, with every listed collection searched
RagEntries_EveryCollection(collab) ==
    IF ~collab.listing.ok \/ collab.listing.v = <<>> THEN <<>>
    ELSE IF collab.embed # "vector" THEN <<>>
    ELSE Flatten([i \in DOMAIN collab.listing.v |->
                      CollectionEntries(collab, collab.listing.v[i])])

\* the vector-store part: nothing when the listing or the embedding raises
\* or is empty, else the hits of the first three collections in their order
RagEntries(collab) ==
    IF ~collab.listing.ok \/ collab.listing.v = <<>> THEN <<>>
    ELSE IF collab.embed # "vector" THEN <<>>
    ELSE LET searched == Prefix(collab.listing.v, CollectionLimit)
         IN  Flatten([i \in DOMAIN searched |->
                          CollectionEntries(collab, searched[i])])

\* the web part: nothing when the search raises, else its first five results
WebEntries(collab) ==
    IF ~collab.web.ok THEN <<>>
    ELSE LET kept == Prefix(collab.web.v, WebLimit)
         IN  [k \in DOMAIN kept |-> WebEntry(kept[k])]

\* the list research_node has built when it comes to the summary
GatherResults(collab) == RagEntries(collab) \o WebEntries(collab)

Collections == {"docs", "api", "blog", "wiki"}

Listings ==
    {Err, Ok(<<>>), Ok(<<"docs">>), Ok(<<"api", "docs">>),
     Ok(<<"wiki", "docs", "api", "blog">>)}

SearchOutcomes(collection) ==
    {Err} \cup {Ok(QdrantHits(collection, n)) : n \in {0, 1, HitLimit}}

Collabs ==
    [listing : Listings,
     embed : {"raises", "empty", "vector"},
     search : {f \in [Collections -> UNION {SearchOutcomes(c) : c \in Collections}] :
                   \A c \in Collections : f[c] \in SearchOutcomes(c)},
     web : {Err} \cup {Ok(WebResults(n)) : n \in {0, 1, MaxWebResults}}]

RagHit == RagEntry("docs", QdrantHit("docs", 1))

WebHit == WebEntry(WebResult(1))

EmptyHit == WebEntry(BlankResult)

\* the collaborators of a request through the graph: one collection at most
AgentCollab(search, web) ==
    [listing |-> Ok(<<"docs">>), embed |-> "vector",
     search |-> [c \in Collections |-> search], web |-> web]

AgentCollabs ==
    {AgentCollab(Err, Err),
     AgentCollab(Ok(QdrantHits("docs", 1)), Err),
     AgentCollab(Err, Ok(WebResults(1))),
     AgentCollab(Ok(QdrantHits("docs", 1)), Ok(WebResults(1))),
     AgentCollab(Ok(<<>>), Ok(<<BlankResult>>))}

\* the result lists research_node builds in a request through the graph
ResearchOutcomes == {GatherResults(collab) : collab \in AgentCollabs}

SummaryReplies == {"summary", "unavailable"}

\* research_node leaving the summary of the state when nothing has content
research_node_KeepingSummary(state, results, reply) ==
    LET withContent == {i \in DOMAIN results : results[i].content # ""}
    IN  IF withContent = {}
        THEN Returned([research_results |-> results,
                       research_summary |-> Get(state, "research_summary", <<>>)],
                      FALSE)
        ELSE IF reply = "unavailable" THEN Raised(TRUE)
        ELSE Returned([research_results |-> results,
                       research_summary |-> <<reply>>], TRUE)

\* _summarize_results: the model is asked only when some result has content
research_node(state, results, reply) ==
    LET withContent == {i \in DOMAIN results : results[i].content # ""}
    IN  IF withContent = {}
        THEN Returned([research_results |-> results, research_summary |-> <<>>],
                      FALSE)
        ELSE IF reply = "unavailable" THEN Raised(TRUE)
        ELSE Returned([research_results |-> results,
                       research_summary |-> <<reply>>], TRUE)

\* one run of research_node, from what its collaborators give
ResearchInit ==
    /\ sources \in Collabs
    /\ summary_reply \in SummaryReplies
    /\ research_out = <<>>
    /\ research_pc = "start"

RunResearch ==
    /\ research_pc = "start"
    /\ LET r == research_node([message |-> "what is a monad"],
                              GatherResults(sources), summary_reply)
       IN  /\ research_pc' = (IF r.raised THEN "raised" ELSE "returned")
           /\ research_out' = r.patch
    /\ UNCHANGED <<sources, summary_reply, exceptResearch>>

ResearchNext == RunResearch

\* resolve_context_node
resolve_context_node(state) ==
    Returned([research_summary |->
                  <<"Followup context: ", Get(state, "message", "")>>], FALSE)

(***************************************************************************)
(* synthesis_node                                                          *)
(***************************************************************************)
DraftReplies == {"draft A", "draft B", "unavailable"}

\* _extract_sources: the results of the model are too few for the limit of
\* five sources to cut any
ExtractSources(results) ==
    {results[i].url : i \in {j \in DOMAIN results : results[j].url # ""}}

synthesis_node(state, reply) ==
    IF reply = "unavailable" THEN Raised(TRUE)
    ELSE Returned([draft_response |-> <<reply>>,
                   sources |-> ExtractSources(Get(state, "research_results", <<>>))],
                  TRUE)

(***************************************************************************)
(* critic_node and route_after_critic                                      *)
(***************************************************************************)
AutoApproved == "Auto-approved after maximum critique attempts."

\* max_critiques of critic_node
MaxCritiques_Four == 3 + 1

MaxCritiques == 3

\* the bound of route_after_critic
RouteMaxCritiques == 3

\* the replies of the completion model to CRITIC_PROMPT, by what the parsing
\* makes of them
CriticReplies ==
    {[kind |-> "garbage"], [kind |-> "nonobject"], [kind |-> "unavailable"]}
    \cup
    [kind : {"object"},
     is_approved : {"true", "false", Missing},
     score : {JNum(40), JText, JNull, JMissing},
     issues : {"none", "strings", "numbers"}]

\* the feedback critic_node builds from issues and suggestions
IssuesFeedback == "Issues: too vague\nSuggestions: cite the sources"

\* the parsing of critic_node, after the model has replied
CriticParse(critique_count, reply) ==
    IF reply.kind = "unavailable" THEN Raised(TRUE)
    ELSE IF reply.kind = "garbage"
    THEN Returned([is_approved |-> TRUE, critique_count |-> critique_count,
                   critique_score |-> 70, critique_feedback |-> ""], TRUE)
    ELSE IF reply.kind = "nonobject" THEN Raised(TRUE)
    ELSE LET is_approved == reply.is_approved # "false"
             score == FloatOf(reply.score, 80)
         IN  IF score.exc = "TypeError" THEN Raised(TRUE)
             ELSE IF score.exc = "ValueError"
             THEN Returned([is_approved |-> TRUE,
                            critique_count |-> critique_count,
                            critique_score |-> 70,
                            critique_feedback |-> ""], TRUE)
             ELSE IF ~is_approved /\ reply.issues = "numbers" THEN Raised(TRUE)
             ELSE Returned([is_approved |-> is_approved,
                            critique_count |-> critique_count,
                            critique_score |-> score.val,
                            critique_feedback |->
                                IF ~is_approved /\ reply.issues = "strings"
                                THEN IssuesFeedback ELSE ""], TRUE)

\* critic_node with the bound tested after the model has been asked
critic_node_ModelFirst(state, reply) ==
    LET critique_count == Get(state, "critique_count", 0) + 1
        r == CriticParse(critique_count, reply)
    IN  IF r.raised \/ critique_count < MaxCritiques THEN r
        ELSE Returned([is_approved |-> TRUE,
                       critique_count |-> critique_count,
                       critique_feedback |-> AutoApproved], TRUE)

\* critic_node adding two to the count
critic_node_CountingTwice(state, reply) ==
    LET critique_count == Get(state, "critique_count", 0) + 2
    IN  IF critique_count >= MaxCritiques
        THEN Returned([is_approved |-> TRUE,
                       critique_count |-> critique_count,
                       critique_feedback |-> AutoApproved], FALSE)
        ELSE CriticParse(critique_count, reply)

\* critic_node
critic_node(state, reply) ==
    LET critique_count == Get(state, "critique_count", 0) + 1
    IN  IF critique_count >= MaxCritiques
        THEN Returned([is_approved |-> TRUE,
                       critique_count |-> critique_count,
                       critique_feedback |-> AutoApproved], FALSE)
        ELSE CriticParse(critique_count, reply)

route_after_critic(state) ==
    IF Get(state, "is_approved", FALSE)
       \/ Get(state, "critique_count", 0) >= RouteMaxCritiques
    THEN "answer" ELSE "revise"

\* revise_node with the summary replaced by the feedback
revise_node_Replacing(state) ==
    Returned([research_summary |->
                  <<"\n\nPrevious draft issues: ",
                    Get(state, "critique_feedback", "")>>], FALSE)

\* revise_node
revise_node(state) ==
    Returned([research_summary |->
                  Get(state, "research_summary", <<>>)
                  \o <<"\n\nPrevious draft issues: ",
                       Get(state, "critique_feedback", "")>>], FALSE)

\* answer_node listing revise from the first critique on
answer_node_FromFirstCritique(state) ==
    Returned(
        [final_response |-> Get(state, "draft_response", <<>>),
         actions_taken |->
             (IF Get(state, "ingestion_status", "") = "success"
              THEN <<"crawl">> ELSE <<>>)
             \o (IF Get(state, "research_results", <<>>) # <<>>
                 THEN <<"research">> ELSE <<>>)
             \o (IF Get(state, "critique_count", 0) > 0
                 THEN <<"revise">> ELSE <<>>)
             \o <<"synthesize">>], FALSE)

\* answer_node
answer_node(state) ==
    Returned(
        [final_response |-> Get(state, "draft_response", <<>>),
         actions_taken |->
             (IF Get(state, "ingestion_status", "") = "success"
              THEN <<"crawl">> ELSE <<>>)
             \o (IF Get(state, "research_results", <<>>) # <<>>
                 THEN <<"research">> ELSE <<>>)
             \o (IF Get(state, "critique_count", 0) > 1
                 THEN <<"revise">> ELSE <<>>)
             \o <<"synthesize">>], FALSE)

(***************************************************************************)
(* One request through the compiled graph, streamed (chat_stream.generate) *)
(***************************************************************************)
\* the edges of build_graph
NextNode(node, state) ==
    CASE node = "interpreter" -> "decision"
      [] node = "decision" -> route_after_decision(state)
      [] node = "crawl" -> "ingest_response"
      [] node = "ingest_response" -> "answer"
      [] node = "research" -> "synthesis"
      [] node = "resolve_context" -> "research"
      [] node = "synthesis" -> "critic"
      [] node = "critic" -> IF route_after_critic(state) = "answer"
                            THEN "answer" ELSE "revise"
      [] node = "revise" -> "synthesis"
      [] node = "answer" -> "END"

\* generate sending the response before the node event
NodeEvents_ResponseFirst(node, patch) ==
    (IF "final_response" \in DOMAIN patch
     THEN <<[event |-> "response", data |-> "final_response"]>> ELSE <<>>)
    \o <<[event |-> "node", data |-> node]>>

\* the events generate sends for one node output
NodeEvents(node, patch) ==
    <<[event |-> "node", data |-> node]>>
    \o (IF "final_response" \in DOMAIN patch
        THEN <<[event |-> "response", data |-> "final_response"]>> ELSE <<>>)

ErrorEvent == [event |-> "error", data |-> "exception"]

DoneEvent == [event |-> "done", data |-> "complete"]

\* generate without its except branch: a node that raises ends the stream
Step_NoExcept(node, r) ==
    /\ pc = node
    /\ UNCHANGED events
    /\ asked' = (IF r.called THEN asked \cup {node} ELSE asked)
    /\ IF r.raised
       THEN /\ pc' = "raised"
            /\ UNCHANGED <<st, trace>>
       ELSE /\ st' = Merge(st, r.patch)
            /\ trace' = Append(trace, node)
            /\ pc' = NextNode(node, st')

\* a node has run with result r: the merge, the routing and the events of
\* generate, or its except branch when the node raised
Step(node, r) ==
    /\ pc = node
    /\ asked' = (IF r.called THEN asked \cup {node} ELSE asked)
    /\ IF r.raised
       THEN /\ pc' = "raised"
            /\ events' = Append(events, ErrorEvent)
            /\ UNCHANGED <<st, trace>>
       ELSE LET state == Merge(st, r.patch)
                next == NextNode(node, state)
            IN  /\ st' = state
                /\ trace' = Append(trace, node)
                /\ pc' = next
                /\ events' = events \o NodeEvents(node, r.patch)
                             \o (IF next = "END" THEN <<DoneEvent>> ELSE <<>>)

\* chat_stream.generate of proteus.py: the outputs of the whole run are
\* collected before any event is sent, so the node events follow only a run
\* that has ended, and a node that raised leaves the error event alone
ProteusEvents ==
    IF pc = "END" THEN events
    ELSE IF pc = "raised" THEN <<ErrorEvent>>
    ELSE <<>>

\* a call of the completion model failed instead of returning: a reply given
\* as text, and a reply given by what json.loads makes of it
Failed(reply) == reply = "unavailable"

FailedJson(reply) == reply.kind = "unavailable"

AgentInit ==
    /\ pc = "interpreter"
    /\ st \in [message : Messages, conversation_id : {"conv-1"}]
    /\ trace = <<>>
    /\ asked = {}
    /\ events = <<>>
    /\ critLog = <<>>
    /\ allRejected = TRUE
    /\ callsReturned = TRUE

Interpreter ==
    \E reply \in InterpreterReplies :
        /\ Step("interpreter", InterpreterNode(st, reply))
        /\ callsReturned' = (callsReturned /\ ~FailedJson(reply))
        /\ UNCHANGED <<critLog, allRejected, filterVars, adapterVars, auxVars>>

Decision ==
    \E reply \in DecisionReplies :
        LET r == decision_node(st, reply)
        IN  /\ Step("decision", r)
            /\ callsReturned' = (callsReturned /\ ~(r.called /\ Failed(reply)))
            /\ UNCHANGED <<critLog, allRejected, filterVars, adapterVars, auxVars>>

Crawl ==
    \E crawl \in CrawlOutcomes :
        /\ Step("crawl", ingest_node(st, crawl))
        /\ UNCHANGED <<critLog, allRejected, callsReturned, filterVars, adapterVars, auxVars>>

IngestResponse ==
    /\ Step("ingest_response", ingest_then_synthesize(st))
    /\ UNCHANGED <<critLog, allRejected, callsReturned, filterVars, adapterVars, auxVars>>

Research ==
    \E results \in ResearchOutcomes : \E reply \in SummaryReplies :
        LET r == research_node(st, results, reply)
        IN  /\ Step("research", r)
            /\ callsReturned' = (callsReturned /\ ~(r.called /\ Failed(reply)))
            /\ UNCHANGED <<critLog, allRejected, filterVars, adapterVars, auxVars>>

ResolveContext ==
    /\ Step("resolve_context", resolve_context_node(st))
    /\ UNCHANGED <<critLog, allRejected, callsReturned, filterVars, adapterVars, auxVars>>

Synthesis ==
    \E reply \in DraftReplies :
        /\ Step("synthesis", synthesis_node(st, reply))
        /\ callsReturned' = (callsReturned /\ ~Failed(reply))
        /\ UNCHANGED <<critLog, allRejected, filterVars, adapterVars, auxVars>>

\* the reply is a parsed report of non-approval
ReportsNonApproval(reply) ==
    /\ reply.kind = "object"
    /\ reply.is_approved = "false"
    /\ reply.score.t \in {"num", "missing"}
    /\ reply.issues # "numbers"

Critic ==
    \E reply \in CriticReplies :
        LET r == critic_node(st, reply)
        IN  /\ Step("critic", r)
            /\ critLog' = Append(critLog,
                   [count |-> Get(st, "critique_count", 0) + 1,
                    called |-> r.called,
                    raised |-> r.raised,
                    is_approved |-> IF r.raised THEN FALSE ELSE r.patch.is_approved,
                    feedback |-> IF r.raised THEN "" ELSE r.patch.critique_feedback])
            /\ allRejected' = (allRejected /\ (r.called => ReportsNonApproval(reply)))
            /\ callsReturned' = (callsReturned /\ ~(r.called /\ FailedJson(reply)))
            /\ UNCHANGED <<filterVars, adapterVars, auxVars>>

Revise ==
    /\ Step("revise", revise_node(st))
    /\ UNCHANGED <<critLog, allRejected, callsReturned, filterVars, adapterVars, auxVars>>

Answer ==
    /\ Step("answer", answer_node(st))
    /\ UNCHANGED <<critLog, allRejected, callsReturned, filterVars, adapterVars, auxVars>>

AgentNext ==
    \/ Interpreter
    \/ Decision
    \/ Crawl
    \/ IngestResponse
    \/ Research
    \/ ResolveContext
    \/ Synthesis
    \/ Critic
    \/ Revise
    \/ Answer

(***************************************************************************)
(* _crawl_and_index (images/agent/nodes/ingest.py): one crawl of a site.   *)
(* The URLs of the site are numbered, the base URL is 1.  The links of a   *)
(* page are the URLs that pass the same-domain and extension tests.        *)
(***************************************************************************)
\* max_pages=20 of the call in ingest_node
max_pages == 20

\* the number of URLs of the site
SiteUrls == 22

BaseUrl == 1

Site == 1..SiteUrls

\* the number of pages, from the base on, that can link to every page
HubPages == 3

\* the links a page at url can hold: none, a link to itself and to the base,
\* and for a hub a link to every page of the site
LinkLists(url) ==
    {<<>>, <<url, BaseUrl>>}
    \cup (IF url <= HubPages THEN {[k \in Site |-> k]} ELSE {})

\* what fetching and indexing a page comes to: an exception (of the request,
\* of the embedding or of the store), a text under 100 characters, or an
\* indexed page with its links
PageOutcomes(url) ==
    {[kind |-> "error", links |-> <<>>], [kind |-> "short", links |-> <<>>]}
    \cup {[kind |-> "indexed", links |-> l] : l \in LinkLists(url)}

\* the links appended to the queue: those not visited
RECURSIVE Unvisited(_, _)
Unvisited(links, seen) ==
    IF links = <<>> THEN <<>>
    ELSE (IF Head(links) \in seen THEN <<>> ELSE <<Head(links)>>)
         \o Unvisited(Tail(links), seen)

CrawlInit ==
    /\ crawl_pc = "start"
    /\ to_visit = <<>>
    /\ visited = {}
    /\ indexed = 0
    /\ fetched = 0

CrawlUnchanged ==
    UNCHANGED exceptCrawl

\* qdrant.create_collection raises, or the queue is set up
CrawlStart ==
    /\ crawl_pc = "start"
    /\ \/ crawl_pc' = "raised" /\ UNCHANGED to_visit
       \/ crawl_pc' = "loop" /\ to_visit' = <<BaseUrl>>
    /\ UNCHANGED <<visited, indexed, fetched>>
    /\ CrawlUnchanged

LoopRuns == to_visit # <<>> /\ indexed < max_pages

\* an iteration on a URL visited before
CrawlSkip ==
    /\ crawl_pc = "loop" /\ LoopRuns
    /\ Head(to_visit) \in visited
    /\ to_visit' = Tail(to_visit)
    /\ UNCHANGED <<crawl_pc, visited, indexed, fetched>>
    /\ CrawlUnchanged

\* an iteration on a new URL: the page is fetched; only an indexed page is
\* counted and only its links are queued
CrawlFetch(url, page) ==
    /\ visited' = visited \cup {url}
    /\ fetched' = fetched + 1
    /\ indexed' = (IF page.kind = "indexed" THEN indexed + 1 ELSE indexed)
    /\ to_visit' = Tail(to_visit)
                   \o (IF page.kind = "indexed"
                       THEN Unvisited(page.links, visited') ELSE <<>>)

CrawlVisit ==
    /\ crawl_pc = "loop" /\ LoopRuns
    /\ Head(to_visit) \notin visited
    /\ \E page \in PageOutcomes(Head(to_visit)) : CrawlFetch(Head(to_visit), page)
    /\ UNCHANGED crawl_pc
    /\ CrawlUnchanged

\* the loop ends and indexed is returned
CrawlReturn ==
    /\ crawl_pc = "loop" /\ ~LoopRuns
    /\ crawl_pc' = "returned"
    /\ UNCHANGED <<to_visit, visited, indexed, fetched>>
    /\ CrawlUnchanged

CrawlNext == CrawlStart \/ CrawlSkip \/ CrawlVisit \/ CrawlReturn

(***************************************************************************)
(* The chunks a crawl stores (the inner loop of _crawl_and_index) and      *)
(* QdrantClient.upsert, with a site of two pages crawled twice, the text   *)
(* of the pages unchanged.                                                 *)
(***************************************************************************)
\* the most chunks the text of a page of the model is cut into
MaxChunks == 2

SitePages == <<"http://site/a", "http://site/b">>

\* the chunks of a page: each has text, or is blank
ChunkLists == UNION {[1..n -> {"text", "blank"}] : n \in 1..MaxChunks}

\* hashlib.md5(f"{url}:{i}".encode()).hexdigest(), the digest standing for
\* the text it was made of
ChunkId_ByIndex(url, i) == [md5 |-> ToString(i)]

ChunkId(url, i) == [md5 |-> url \o ":" \o ToString(i)]

\* the payload stored with the chunk i of the page at url
ChunkPayload(url, i) ==
    [url |-> url, text |-> "chunk " \o ToString(i) \o " of " \o url,
     chunk_index |-> i]

\* QdrantClient.upsert of one point: PUT of the point under its identifier
Upsert(store, id, payload) ==
    [k \in DOMAIN store \cup {id} |-> IF k = id THEN payload ELSE store[k]]

NoPoints == [k \in {} |-> 0]

NoneKept == [c \in {1, 2} |-> {}]

StoreInit ==
    /\ points = NoPoints
    /\ first_points = NoPoints
    /\ site_chunks \in [DOMAIN SitePages -> ChunkLists]
    /\ crawl_no = 1
    /\ at = [page |-> 1, chunk |-> 0]
    /\ stored = NoneKept

Crawling == crawl_no \in {1, 2} /\ at.page <= Len(SitePages)

\* the chunk after this one, or the first of the next page
NextChunk ==
    IF at.chunk + 1 < Len(site_chunks[at.page])
    THEN [page |-> at.page, chunk |-> at.chunk + 1]
    ELSE [page |-> at.page + 1, chunk |-> 0]

\* the chunk has text, the embedding is returned and the point is stored
StoreChunk ==
    /\ Crawling
    /\ site_chunks[at.page][at.chunk + 1] = "text"
    /\ points' = Upsert(points, ChunkId(SitePages[at.page], at.chunk),
                        ChunkPayload(SitePages[at.page], at.chunk))
    /\ stored' = [stored EXCEPT ![crawl_no] = @ \cup {<<at.page, at.chunk>>}]
    /\ at' = NextChunk
    /\ UNCHANGED <<first_points, site_chunks, crawl_no, exceptStore>>

\* the chunk is blank, or no embedding is returned for it: it is skipped
SkipChunk ==
    /\ Crawling
    /\ at' = NextChunk
    /\ UNCHANGED <<points, first_points, site_chunks, crawl_no, stored, exceptStore>>

\* the embedding or the upsert raises: the rest of the page is left
LeavePage ==
    /\ Crawling
    /\ site_chunks[at.page][at.chunk + 1] = "text"
    /\ at' = [page |-> at.page + 1, chunk |-> 0]
    /\ UNCHANGED <<points, first_points, site_chunks, crawl_no, stored, exceptStore>>

\* the crawl has been through the pages
EndCrawl ==
    /\ crawl_no \in {1, 2} /\ at.page > Len(SitePages)
    /\ first_points' = (IF crawl_no = 1 THEN points ELSE first_points)
    /\ crawl_no' = crawl_no + 1
    /\ at' = [page |-> 1, chunk |-> 0]
    /\ UNCHANGED <<points, site_chunks, stored, exceptStore>>

StoreNext == StoreChunk \/ SkipChunk \/ LeavePage \/ EndCrawl

(***************************************************************************)
(* QdrantClient.create_collection called by two crawls at once: each call  *)
(* lists the collections, then PUTs the collection when its name was not   *)
(* listed.  The vector store is the one thing the callers share.           *)
(***************************************************************************)
CollectionNames == {"site_a", "site_b"}

\* the collections the store may hold before the calls
StoredNames == CollectionNames \cup {"docs"}

Callers == {1, 2}

\* the status of PUT /collections/{name}: 409 when the collection exists
PutStatus(store, name) == IF name \in store THEN 409 ELSE 200

\* resp.raise_for_status()
RaisesForStatus(status) == status >= 400

RaceInit ==
    /\ existing \in SUBSET StoredNames
    /\ caller_name \in [Callers -> CollectionNames]
    /\ caller_pc = [c \in Callers |-> "list"]
    /\ caller_ret = [c \in Callers |-> "none"]

\* if name in self.list_collections(): return False
ListCollections(c) ==
    /\ caller_pc[c] = "list"
    /\ IF caller_name[c] \in existing
       THEN /\ caller_pc' = [caller_pc EXCEPT ![c] = "done"]
            /\ caller_ret' = [caller_ret EXCEPT ![c] = "False"]
       ELSE /\ caller_pc' = [caller_pc EXCEPT ![c] = "put"]
            /\ UNCHANGED caller_ret
    /\ UNCHANGED <<existing, caller_name, exceptRace>>

\* requests.put(...); resp.raise_for_status(); return True
PutCollection(c) ==
    /\ caller_pc[c] = "put"
    /\ caller_pc' = [caller_pc EXCEPT ![c] = "done"]
    /\ IF RaisesForStatus(PutStatus(existing, caller_name[c]))
       THEN /\ caller_ret' = [caller_ret EXCEPT ![c] = "raised"]
            /\ UNCHANGED existing
       ELSE /\ caller_ret' = [caller_ret EXCEPT ![c] = "True"]
            /\ existing' = existing \cup {caller_name[c]}
    /\ UNCHANGED <<caller_name, exceptRace>>

RaceNext == \E c \in Callers : ListCollections(c) \/ PutCollection(c)

(***************************************************************************)
(* Two requests at once: each runs the graph on its own AgentState         *)
(* (agent_graph.invoke of chat) and streams its response through the       *)
(* filter select_filter returned for it.  The collaborators' replies to a  *)
(* request are fixed by its script.                                        *)
(***************************************************************************)
RequestIds == {1, 2}

\* the replies of the collaborators to one request
LearnScript ==
    [message |-> "learn the fastapi docs",
     interp |-> [kind |-> "object", intent |-> "learning", confidence |-> JNum(90),
                 entities |-> EntList(<<"fastapi">>), inferred_url |-> FastapiUrl],
     decision |-> "crawl",
     crawl |-> [raised |-> FALSE, indexed |-> 1],
     results |-> <<>>, summary |-> "summary", draft |-> "draft A",
     critic |-> [kind |-> "garbage"]]

ApprovedScript ==
    [message |-> "what is a monad",
     interp |-> [kind |-> "object", intent |-> "question", confidence |-> JNum(90),
                 entities |-> EntList(<<>>), inferred_url |-> None],
     decision |-> "research",
     crawl |-> [raised |-> TRUE, indexed |-> 0],
     results |-> GatherResults(AgentCollab(Ok(QdrantHits("docs", 1)), Err)),
     summary |-> "summary", draft |-> "draft A",
     critic |-> [kind |-> "object", is_approved |-> "true", score |-> JNum(40),
                 issues |-> "none"]]

RejectedScript ==
    [message |-> "what is a monad",
     interp |-> [kind |-> "object", intent |-> "question", confidence |-> JNum(90),
                 entities |-> EntList(<<>>), inferred_url |-> None],
     decision |-> "resolve_context",
     crawl |-> [raised |-> TRUE, indexed |-> 0],
     results |-> GatherResults(AgentCollab(Err, Ok(WebResults(1)))),
     summary |-> "summary", draft |-> "draft B",
     critic |-> [kind |-> "object", is_approved |-> "false", score |-> JNum(40),
                 issues |-> "strings"]]

Scripts == {LearnScript, ApprovedScript, RejectedScript}

\* the input of agent_graph.invoke in chat
InvokeInput(script) == [message |-> script.message, conversation_id |-> "conv-1"]

\* the node run on a state, the collaborators replying as the script says
NodeResult(node, state, script) ==
    CASE node = "interpreter" -> InterpreterNode(state, script.interp)
      [] node = "decision" -> decision_node(state, script.decision)
      [] node = "crawl" -> ingest_node(state, script.crawl)
      [] node = "ingest_response" -> ingest_then_synthesize(state)
      [] node = "research" -> research_node(state, script.results, script.summary)
      [] node = "resolve_context" -> resolve_context_node(state)
      [] node = "synthesis" -> synthesis_node(state, script.draft)
      [] node = "critic" -> critic_node(state, script.critic)
      [] node = "revise" -> revise_node(state)
      [] node = "answer" -> answer_node(state)

Ended(node) == node \in {"END", "raised"}

\* the run of the graph from a node to its end, with nothing else running
RECURSIVE RunAlone(_, _, _)
RunAlone(node, state, script) ==
    IF Ended(node) THEN [pc |-> node, st |-> state]
    ELSE LET r == NodeResult(node, state, script)
         IN  IF r.raised THEN [pc |-> "raised", st |-> state]
             ELSE LET merged == Merge(state, r.patch)
                  IN  RunAlone(NextNode(node, merged), merged, script)

\* the responses streamed: the User-Agent of the client and the chunks
FenceStream ==
    [user_agent |-> "Goose/1.0",
     chunks |-> << <<BT, BT, BT, "\n", "*", "*">>, <<"a", "*", "*", "\n">> >>]

BoldStream ==
    [user_agent |-> "Goose/1.0",
     chunks |-> << <<"*", "*", "a">>, <<"*", "*", "\n", "_", "b", "_">> >>]

PlainStream ==
    [user_agent |-> "curl/8.5",
     chunks |-> << <<"*", "*", "a">>, <<"*", "*", "\n", "_", "b", "_">> >>]

Responses == {FenceStream, BoldStream, PlainStream}

\* "Goose" in user_agent
IsGoose(user_agent) == user_agent = "Goose/1.0"

\* GooseFilter() and PassthroughFilter()
NewFilter(user_agent) ==
    [kind |-> IF IsGoose(user_agent) THEN "goose" ELSE "passthrough",
     buffer |-> <<>>, fence |-> FALSE]

\* select_filter keeping one instance for each kind of client
select_filter_Cached(made, user_agent) ==
    IF \E i \in DOMAIN made : made[i].kind = NewFilter(user_agent).kind
    THEN CHOOSE i \in DOMAIN made : made[i].kind = NewFilter(user_agent).kind
    ELSE Len(made) + 1

\* select_filter, given the instances made so far: the place of the instance
\* it returns, a new one at every call
select_filter(made, user_agent) == Len(made) + 1

\* feed of an instance: what it returns and the instance after it
InstanceFeed(filter, chunk) ==
    IF filter.kind = "goose"
    THEN LET r == FilterFeed(filter.buffer, filter.fence, chunk)
         IN  [out |-> r.out,
              filter |-> [kind |-> "goose", buffer |-> r.buffer, fence |-> r.fence]]
    ELSE [out |-> chunk, filter |-> filter]

\* flush of an instance
InstanceFlush(filter) ==
    IF filter.kind = "goose"
    THEN LET r == FilterFlush(filter.buffer, filter.fence)
         IN  [out |-> r.out,
              filter |-> [kind |-> "goose", buffer |-> r.buffer, fence |-> r.fence]]
    ELSE [out |-> <<>>, filter |-> filter]

\* what feeding the chunks from place k on and flushing returns in all
RECURSIVE RestAlone(_, _, _)
RestAlone(filter, chunks, k) ==
    IF k > Len(chunks) THEN InstanceFlush(filter).out
    ELSE LET r == InstanceFeed(filter, chunks[k])
         IN  r.out \o RestAlone(r.filter, chunks, k + 1)

PairInit ==
    /\ requests \in [RequestIds -> [script : Scripts, pc : {"interpreter"}, st : {<<>>}]]
    /\ \A r \in RequestIds : requests[r].st = <<>>
    /\ filters = <<>>
    /\ streams \in [RequestIds -> [response : Responses, filter : {0}, pos : {0},
                                   out : {<<>>}, done : {FALSE}]]

\* a node of the graph runs for request r
RunNode(r) ==
    /\ ~Ended(requests[r].pc)
    /\ LET req == requests[r]
           state == IF req.pc = "interpreter" THEN InvokeInput(req.script) ELSE req.st
           res == NodeResult(req.pc, state, req.script)
       IN  requests' = [requests EXCEPT ![r] =
               IF res.raised THEN [req EXCEPT !.pc = "raised", !.st = state]
               ELSE LET merged == Merge(state, res.patch)
                    IN  [req EXCEPT !.pc = NextNode(req.pc, merged), !.st = merged]]
    /\ UNCHANGED <<filters, streams, exceptPair>>

\* the run of request r has ended and its response is to be streamed: the
\* filter of the response is selected
SelectFilter(r) ==
    /\ Ended(requests[r].pc)
    /\ streams[r].filter = 0
    /\ LET k == select_filter(filters, streams[r].response.user_agent)
       IN  /\ filters' = (IF k > Len(filters)
                          THEN Append(filters, NewFilter(streams[r].response.user_agent))
                          ELSE filters)
           /\ streams' = [streams EXCEPT ![r].filter = k]
    /\ UNCHANGED <<requests, exceptPair>>

\* the next chunk of the response to request r is fed to its filter
FeedChunk(r) ==
    /\ streams[r].filter # 0
    /\ streams[r].pos < Len(streams[r].response.chunks)
    /\ LET k == streams[r].filter
           res == InstanceFeed(filters[k], streams[r].response.chunks[streams[r].pos + 1])
       IN  /\ filters' = [filters EXCEPT ![k] = res.filter]
           /\ streams' = [streams EXCEPT ![r].pos = @ + 1, ![r].out = @ \o res.out]
    /\ UNCHANGED <<requests, exceptPair>>

\* the response to request r has ended: its filter is flushed
FlushStream(r) ==
    /\ streams[r].filter # 0
    /\ streams[r].pos = Len(streams[r].response.chunks)
    /\ ~streams[r].done
    /\ LET k == streams[r].filter
           res == InstanceFlush(filters[k])
       IN  /\ filters' = [filters EXCEPT ![k] = res.filter]
           /\ streams' = [streams EXCEPT ![r].done = TRUE, ![r].out = @ \o res.out]
    /\ UNCHANGED <<requests, exceptPair>>

PairNext ==
    \E r \in RequestIds :
        RunNode(r) \/ SelectFilter(r) \/ FeedChunk(r) \/ FlushStream(r)

(***************************************************************************)
(* The specifications: one for the agent graph, one for the content        *)
(* filter, one for the model adapters, one for the selection of adapters,  *)
(* one for the crawl and one for the research node.  The other components  *)
(* are at rest in each.                                                    *)
(***************************************************************************)
vars == <<agentVars, filterVars, adapterVars, auxVars>>

AgentIdle ==
    /\ pc = "idle"
    /\ st = <<>>
    /\ trace = <<>>
    /\ asked = {}
    /\ events = <<>>
    /\ critLog = <<>>
    /\ allRejected = TRUE
    /\ callsReturned = TRUE

FilterIdle ==
    /\ ftext = <<>>
    /\ fpos = 0
    /\ fbuffer = <<>>
    /\ in_fence = FALSE
    /\ fouts = <<>>
    /\ lastOp = "idle"
    /\ lastOut = <<>>
    /\ earlyFlush = 0
    /\ byChar = TRUE

AdapterIdle ==
    /\ adapter = "Base"
    /\ apieces = <<>>
    /\ ollama_msg = [content |-> <<>>, tool_calls |-> <<>>]
    /\ tool_names = {}
    /\ result = ollama_msg
    /\ normalized = TRUE

SelectorIdle ==
    /\ adapter_cache = [m \in {} |-> 0]
    /\ instances = <<>>
    /\ selected = NoCall

CrawlIdle ==
    /\ crawl_pc = "idle"
    /\ to_visit = <<>>
    /\ visited = {}
    /\ indexed = 0
    /\ fetched = 0

ResearchIdle ==
    /\ sources = <<>>
    /\ summary_reply = ""
    /\ research_out = <<>>
    /\ research_pc = "idle"

StoreIdle ==
    /\ points = NoPoints
    /\ first_points = NoPoints
    /\ site_chunks = <<>>
    /\ crawl_no = 0
    /\ at = [page |-> 0, chunk |-> 0]
    /\ stored = NoneKept

RaceIdle ==
    /\ existing = {}
    /\ caller_name = <<>>
    /\ caller_pc = <<>>
    /\ caller_ret = <<>>

PairIdle ==
    /\ requests = <<>>
    /\ filters = <<>>
    /\ streams = <<>>

AuxIdle ==
    /\ SelectorIdle /\ CrawlIdle /\ ResearchIdle
    /\ StoreIdle /\ RaceIdle /\ PairIdle

Init == AgentInit /\ FilterIdle /\ AdapterIdle /\ AuxIdle

Next == AgentNext

Spec == Init /\ [][Next]_vars

FilterSpecInit == FilterInit /\ AgentIdle /\ AdapterIdle /\ AuxIdle

FilterSpec == FilterSpecInit /\ [][FilterNext]_vars

AdapterSpecInit == AdapterInit /\ AgentIdle /\ FilterIdle /\ AuxIdle

AdapterSpec == AdapterSpecInit /\ [][AdapterNext]_vars

Resting == AgentIdle /\ FilterIdle /\ AdapterIdle

SelectorSpecInit ==
    /\ SelectorInit /\ Resting
    /\ CrawlIdle /\ ResearchIdle /\ StoreIdle /\ RaceIdle /\ PairIdle

SelectorSpec == SelectorSpecInit /\ [][SelectorNext]_vars

CrawlSpecInit ==
    /\ CrawlInit /\ Resting
    /\ SelectorIdle /\ ResearchIdle /\ StoreIdle /\ RaceIdle /\ PairIdle

CrawlSpec == CrawlSpecInit /\ [][CrawlNext]_vars

ResearchSpecInit ==
    /\ ResearchInit /\ Resting
    /\ SelectorIdle /\ CrawlIdle /\ StoreIdle /\ RaceIdle /\ PairIdle

ResearchSpec == ResearchSpecInit /\ [][ResearchNext]_vars

StoreSpecInit ==
    /\ StoreInit /\ Resting
    /\ SelectorIdle /\ CrawlIdle /\ ResearchIdle /\ RaceIdle /\ PairIdle

StoreSpec == StoreSpecInit /\ [][StoreNext]_vars

RaceSpecInit ==
    /\ RaceInit /\ Resting
    /\ SelectorIdle /\ CrawlIdle /\ ResearchIdle /\ StoreIdle /\ PairIdle

RaceSpec == RaceSpecInit /\ [][RaceNext]_vars

PairSpecInit ==
    /\ PairInit /\ Resting
    /\ SelectorIdle /\ CrawlIdle /\ ResearchIdle /\ StoreIdle /\ RaceIdle

PairSpec == PairSpecInit /\ [][PairNext]_vars

(***************************************************************************)
(* Properties of the agent graph.                                          *)
(***************************************************************************)
\* the number of times node n has completed in the run
Runs(n) == Cardinality({i \in DOMAIN trace : trace[i] = n})

\* the run was routed through research
ThroughResearch == \E i \in DOMAIN trace : trace[i] = "research"

\* C1: in a run routed through research in which every reply of the
\* completion model to the critique prompt reports non-approval, the
\* critique node runs exactly 3 times, its third run records the
\* auto-approved feedback, the run then goes to answer, and there is never
\* a 4th critique run.
C1_ThreeCritiquesThenAnswer ==
    /\ Len(critLog) <= 3
    /\ (allRejected /\ Len(critLog) = 3) =>
           /\ pc \in {"answer", "END"}
           /\ critLog[3].is_approved
           /\ critLog[3].feedback = AutoApproved
           /\ st.critique_feedback = AutoApproved
    /\ (allRejected /\ ThroughResearch /\ pc \in {"answer", "END"}) =>
           Len(critLog) = 3

C1_Witness ==
    /\ pc = "END"
    /\ allRejected
    /\ ThroughResearch
    /\ Len(critLog) = 3
    /\ Runs("revise") = 2

\* C2: every run in which each call of a collaborator returns reaches the
\* terminal answer node (no state short of the end is stuck), with at most
\* 2 executions of revise and at most 3 of synthesize.
C2_EveryRunReachesAnswer ==
    callsReturned =>
        /\ pc = "END" \/ ENABLED AgentNext
        /\ Runs("revise") <= 2
        /\ Runs("synthesis") <= 3

\* C3: a critique run whose incremented counter has reached 3 sets approval
\* true and records the auto-approved feedback without invoking the
\* completion model, whatever the model would have answered; so the
\* critique model is invoked at most 2 times in a run.
C3_BoundForcesApprovalWithoutModel ==
    /\ \A i \in DOMAIN critLog :
           critLog[i].count >= 3 =>
               /\ ~critLog[i].called
               /\ ~critLog[i].raised
               /\ critLog[i].is_approved
               /\ critLog[i].feedback = AutoApproved
    /\ Cardinality({i \in DOMAIN critLog : critLog[i].called}) <= 2
    /\ Get(st, "critique_count", 0) + 1 >= 3 =>
           \A reply \in CriticReplies :
               LET r == critic_node(st, reply)
               IN  /\ ~r.raised
                   /\ ~r.called
                   /\ r.patch.is_approved
                   /\ r.patch.critique_feedback = AutoApproved

C3_Witness ==
    /\ Len(critLog) = 3
    /\ critLog[1].called
    /\ critLog[2].called
    /\ ~critLog[3].called
    /\ critLog[3].count = 3

(***************************************************************************)
(* Properties of the model adapters.                                       *)
(***************************************************************************)
\* the names of the tool calls of a list
Names(calls) == {calls[i].name : i \in DOMAIN calls}

\* the content was written with a call of the tool name in it
ContentCalls(name) ==
    \E k \in DOMAIN apieces : apieces[k].kind = "call" /\ apieces[k].name = name

\* C4: for every adapter variant and every raw message, no tool call whose
\* name is outside the valid-name set is in the normalized result, whenever
\* the valid-name set is not empty or the calls were recovered from content.
C4_NoInvalidNameSurvives ==
    (normalized /\ (tool_names # {} \/ ollama_msg.tool_calls = <<>>)) =>
        Names(result.tool_calls) \subseteq tool_names

C4_Witness ==
    /\ normalized
    /\ adapter # "Base"
    /\ ollama_msg.tool_calls = <<>>
    /\ ContentCalls(FakeTool)
    /\ ContentCalls(Search)
    /\ Names(result.tool_calls) = {Search}

\* C4 as stated: for every valid-name set, the empty one included, no tool
\* call whose name is outside the set is in the normalized result.
C4_AnyValidNameSet ==
    normalized => Names(result.tool_calls) \subseteq tool_names

\* a is b with some elements left out
RECURSIVE IsSubsequence(_, _)
IsSubsequence(a, b) ==
    IF a = <<>> THEN TRUE
    ELSE IF b = <<>> THEN FALSE
    ELSE IF Head(a) = Head(b) THEN IsSubsequence(Tail(a), Tail(b))
    ELSE IsSubsequence(a, Tail(b))

\* the text without its reasoning spans and otherwise untouched
WithoutThinkSpans(text) == RemoveSpans(text, ThinkBlocks(text, 1))

\* C5: for a raw message with structured tool calls there is no recovery
\* from content: the result's tool calls are a subsequence of the input's,
\* and the content is the input content without its reasoning spans
\* (HermesXML) or the input content itself (other variants).
C5_StructuredCallsSkipRecovery ==
    (normalized /\ ollama_msg.tool_calls # <<>>) =>
        /\ IsSubsequence(result.tool_calls, ollama_msg.tool_calls)
        /\ result.content = IF adapter = "HermesXML"
                            THEN WithoutThinkSpans(ollama_msg.content)
                            ELSE ollama_msg.content

\* the calls written into the content, in order
RECURSIVE CallsOf(_)
CallsOf(ps) ==
    IF ps = <<>> THEN <<>>
    ELSE (IF Head(ps).kind = "call"
          THEN <<[name |-> Head(ps).name, arguments |-> Head(ps).arguments]>>
          ELSE <<>>) \o CallsOf(Tail(ps))

\* the prose written into the content, in order
RECURSIVE ProseOf(_)
ProseOf(ps) ==
    IF ps = <<>> THEN <<>>
    ELSE (IF Head(ps).kind = "prose" THEN Head(ps).text ELSE <<>>)
         \o ProseOf(Tail(ps))

\* the message has no structured calls and its content is prose and
\* well-formed calls that all name valid tools
EmbedsValidCalls ==
    /\ adapter \in {"HermesXML", "FencedJSON"}
    /\ ollama_msg.tool_calls = <<>>
    /\ \A k \in DOMAIN apieces :
           \/ apieces[k].kind = "prose"
           \/ apieces[k].kind = "call" /\ apieces[k].name \in tool_names

WholeOutput(text) ==
    LET r == FilterFeed(<<>>, FALSE, text)
        f == FilterFlush(r.buffer, r.fence)
    IN  r.out \o f.out

\* no flush has been called while text was still to come
cleanRun == earlyFlush = 0

\* the stream is complete: all the text was fed and flush was called after it
StreamComplete == lastOp = "flush" /\ fpos = Len(ftext) /\ cleanRun

\* the part of the text whose lines the filter has transformed, in a run
\* whose only flush is the final one
Processed ==
    IF lastOp = "flush" THEN ftext ELSE SubSeq(ftext, 1, fpos - Len(fbuffer))

\* line i of ls lies after an odd number of fence lines
InsideFence(ls, i) ==
    Cardinality({j \in 1..(i - 1) : IsFenceLine(ls[j])}) % 2 = 1

\* C7: however the text is cut into chunks (one character at a time
\* included), the feed outputs followed by the final flush output,
\* concatenated, equal the output of one feed of the whole text and flush.
C7_ChunkingInvariant == StreamComplete => fouts = WholeOutput(ftext)

\* a text that the filter changes, fed one character at a time and flushed,
\* the flush emitting a partial line
C7_Witness ==
    /\ StreamComplete
    /\ byChar
    /\ Len(ftext) >= 4
    /\ lastOut # <<>>
    /\ fouts # ftext

\* C8: every line between an opening fence line and its closing fence line
\* is emitted unmodified, whatever markers it holds; the fence lines are
\* emitted unmodified and each of them toggles _in_fence.
C8_FencedLinesUnmodified ==
    cleanRun =>
        LET inL == SplitLines(Processed)
            outL == SplitLines(fouts)
        IN  /\ Len(outL) = Len(inL)
            /\ \A i \in 1..Len(inL) :
                   (IsFenceLine(inL[i]) \/ InsideFence(inL, i)) => outL[i] = inL[i]
            /\ in_fence = InsideFence(inL, Len(inL) + 1)

\* a closed fence holding a line with bold markers or a horizontal rule
C8_Witness ==
    /\ StreamComplete
    /\ LET inL == SplitLines(ftext)
       IN  \E i \in 1..Len(inL) : \E j \in (i + 1)..Len(inL) :
               /\ InsideFence(inL, i)
               /\ ~IsFenceLine(inL[i])
               /\ (IsHorizontalRule(inL[i]) \/ StripMarkers(inL[i]) # inL[i])
               /\ IsFenceLine(inL[j])
               /\ ~in_fence

\* C9: what feed returns is empty or ends with a newline, the buffer never
\* holds a newline, and before any flush the buffer is exactly the text
\* received after the last newline.
C9_FeedEmitsWholeLines ==
    /\ \A i \in 1..Len(fbuffer) : fbuffer[i] # "\n"
    /\ lastOp = "feed" =>
           (lastOut = <<>> \/ lastOut[Len(lastOut)] = "\n")
    /\ (lastOp = "feed" /\ cleanRun) =>
           LET fed == SubSeq(ftext, 1, fpos)
           IN  fbuffer = SubSeq(fed, LastNewline(fed) + 1, Len(fed))

\* a feed that emitted complete lines and kept a partial line back
C9_Witness == lastOp = "feed" /\ lastOut # <<>> /\ fbuffer # <<>>

\* C10: after flush the filter state is cleared: the buffer is empty and
\* _in_fence is false.
C10_FlushClearsState == lastOp = "flush" => (fbuffer = <<>> /\ in_fence = FALSE)

(***************************************************************************)
(* The streaming chat operation                                            *)
(***************************************************************************)
\* the graph executor runs the next node until the run ends or a node raises
FairSpec == Spec /\ WF_vars(AgentNext)

Finished == pc \in {"END", "raised"}

\* the positions of the terminal events in a stream
Terminals(evs) == {i \in DOMAIN evs : evs[i].event \in {"done", "error"}}

\* the positions of the events of one kind in a stream
EventsOf(evs, kind) == {i \in DOMAIN evs : evs[i].event = kind}

IsNodeEvent(e) == e.event = "node"

\* the names of the node events of a stream, in the order sent
NodeNames(evs) ==
    LET sel == SelectSeq(evs, IsNodeEvent)
    IN  [i \in DOMAIN sel |-> sel[i].data]

\* a stream holds no terminal event while the run goes on, and exactly one,
\* in last place, once the run has ended
TerminalIsLast(evs) ==
    /\ Cardinality(Terminals(evs)) <= 1
    /\ Terminals(evs) # {} => (Finished /\ Terminals(evs) = {Len(evs)})
    /\ Finished => Terminals(evs) = {Len(evs)}
    /\ ~(EventsOf(evs, "done") # {} /\ EventsOf(evs, "error") # {})

\* C11: the event stream of the streaming chat operation ends with exactly
\* one terminal event, done or error: no terminal event is sent while the run
\* goes on, every run ends, and once it has ended (a node that raises after
\* node events were sent included) exactly one of the two has been sent, as
\* the last event, and never both; for the stream of agent.py and for the
\* stream of proteus.py.
C11_OneTerminalEventLast ==
    [](TerminalIsLast(events) /\ TerminalIsLast(ProteusEvents)) /\ <>[]Finished

\* a node raised after node events had been sent: the stream ends with error
C11_Witness ==
    /\ pc = "raised"
    /\ Len(events) >= 3
    /\ events[1].event = "node"
    /\ events[Len(events)].event = "error"
    /\ EventsOf(events, "done") = {}
    /\ ProteusEvents = <<ErrorEvent>>

\* the response event of a stream: at most one, directly after the node
\* event of answer, and before done
ResponseFollowsAnswer(evs) ==
    /\ Cardinality(EventsOf(evs, "response")) <= 1
    /\ \A i \in EventsOf(evs, "response") :
           /\ i > 1
           /\ evs[i - 1] = [event |-> "node", data |-> "answer"]
           /\ "final_response" \in DOMAIN st
    /\ \A i \in EventsOf(evs, "done") :
           \E j \in EventsOf(evs, "response") : j < i

\* C12: node events are sent in the order in which the nodes of the run
\* completed, the response event is sent at most once and directly after the
\* node event of answer, the node that produced final_response, and when
\* done has been sent a response event was sent before it.
C12_EventsFollowNodeOrder ==
    /\ NodeNames(events) = trace
    /\ NodeNames(ProteusEvents) = (IF pc = "END" THEN trace ELSE <<>>)
    /\ ResponseFollowsAnswer(events)
    /\ ResponseFollowsAnswer(ProteusEvents)

\* a run through two revisions has sent its node events, response and done
C12_Witness ==
    /\ pc = "END"
    /\ Runs("revise") = 2
    /\ NodeNames(events) = trace
    /\ Len(trace) = 13
    /\ EventsOf(events, "response") = {Len(events) - 1}
    /\ EventsOf(events, "done") = {Len(events)}
    /\ ProteusEvents = events

(***************************************************************************)
(* The decision node and the routing after it                              *)
(***************************************************************************)
IntentOf(state) == Get(state, "intent_type", "question")

UrlOf(state) == Get(state, "inferred_url", None)

Routes == {"crawl", "resolve_context", "research"}

\* decision_node returned and the graph routed on
Decided == pc = "decision" /\ pc' # "raised"

\* C13: whenever the state entering the decision node has intent learning and
\* an inferred URL that is not null, the decision node sets next_action to
\* crawl, the next node is crawl, and the decision node has not invoked the
\* completion model.
C13_LearningWithUrlCrawls ==
    [][(pc = "decision" /\ IntentOf(st) = "learning" /\ UrlOf(st) # None)
          => /\ pc' = "crawl"
             /\ st'.next_action = "crawl"
             /\ "decision" \notin asked']_vars

\* C14: for every intent and every reply of the completion model the node
\* after decide is one of crawl, resolve_context, research; followup goes to
\* resolve_context and question to research without a model call; in every
\* other case a reply that, trimmed and lower-cased, is none of crawl,
\* resolve_context, research, execute leads to research, and so does execute.
C14_DecideRoutesToOneOfThree ==
    [][pc = "decision"
          => /\ Decided => pc' \in Routes
             /\ IntentOf(st) = "followup"
                   => pc' = "resolve_context" /\ "decision" \notin asked'
             /\ IntentOf(st) = "question"
                   => pc' = "research" /\ "decision" \notin asked'
             /\ (Decided /\ "decision" \in asked'
                     /\ st'.next_action \notin {"crawl", "resolve_context"})
                   => pc' = "research"
             /\ \A reply \in DecisionReplies \ {"unavailable"} :
                    LET r == decision_node(st, reply)
                    IN  (r.called /\ StripLower(reply)
                                        \notin {"crawl", "resolve_context", "research"})
                            => NextNode("decision", Merge(st, r.patch)) = "research"]_vars

\* the model was asked, replied execute, and research is the next node
C14_Witness ==
    /\ "decision" \in asked
    /\ Len(trace) = 2
    /\ IntentOf(st) \notin {"followup", "question"}
    /\ st.next_action = "execute"
    /\ pc = "research"

(***************************************************************************)
(* The ingestion path: crawl, ingest_response, answer                      *)
(***************************************************************************)
\* the decision of the run routed to crawl
RoutedToCrawl == Len(trace) >= 2 /\ Get(st, "next_action", "research") = "crawl"

CrawlPath == <<"crawl", "ingest_response", "answer">>

\* the nodes that have completed after decide
AfterDecide == SubSeq(trace, 3, Len(trace))

IssueNarrative == "I encountered an issue while indexing: "

\* C15: in every run that the decision routes to crawl the node sequence
\* after decide is exactly crawl, ingest_response, answer: no node of the run
\* raises, research, synthesis, critic and revise never run, ingest_response
\* sets a non-empty draft_response and is_approved true, and final_response
\* equals that draft_response.
C15_CrawlRunsSkipCritique ==
    RoutedToCrawl =>
        /\ pc # "raised"
        /\ Len(AfterDecide) <= Len(CrawlPath)
        /\ AfterDecide = SubSeq(CrawlPath, 1, Len(AfterDecide))
        /\ pc = (IF Len(AfterDecide) = Len(CrawlPath) THEN "END"
                 ELSE CrawlPath[Len(AfterDecide) + 1])
        /\ \A node \in {"research", "synthesis", "critic", "revise"} : Runs(node) = 0
        /\ Runs("ingest_response") > 0
              => /\ st.draft_response # <<>>
                 /\ st.is_approved = TRUE
                 /\ "critique_count" \notin DOMAIN st
        /\ pc = "END" => st.final_response = st.draft_response

\* ingest_node has no URL to crawl: no inferred URL, and no documentation
\* keyword in the entities or the message
Unresolvable(state) ==
    /\ ~Truthy(UrlOf(state))
    /\ Mentions(Get(state, "message", "")) = {}
    /\ \A i \in DOMAIN Get(state, "entities", EntList(<<>>)).v :
           Mentions(state.entities.v[i]) = {}

\* C16: when ingest_node cannot resolve a URL, or the crawl raises, the node
\* does not raise: it returns ingestion_status failed with pages_indexed 0
\* and a message, the run goes on through ingest_response to answer, and
\* final_response is the failure narrative that holds the message.
C16_IngestFailureIsNarrated ==
    /\ (RoutedToCrawl /\ Unresolvable(st)) =>
           /\ pc # "raised"
           /\ Runs("crawl") > 0 => st.ingestion_status = "failed"
    /\ (RoutedToCrawl /\ Runs("crawl") > 0 /\ st.ingestion_status = "failed") =>
           /\ st.pages_indexed = 0
           /\ st.ingestion_message # <<>>
           /\ pc \in {"ingest_response", "answer", "END"}
           /\ Runs("ingest_response") > 0
                 => st.draft_response = <<IssueNarrative>> \o st.ingestion_message
           /\ pc = "END"
                 => st.final_response = <<IssueNarrative>> \o st.ingestion_message

(***************************************************************************)
(* Replies of the completion model that are no well-formed JSON report     *)
(***************************************************************************)
\* the classification interpreter_node has merged into the state
ClassificationOf(state) ==
    [intent_type |-> state.intent_type, confidence |-> state.confidence,
     entities |-> state.entities, inferred_url |-> state.inferred_url]

\* a classification with an intent of the four and a list of entities
WellFormed(c) == c.intent_type \in Intents /\ c.entities.t = "list"

\* C17: for every reply the completion model gives to the classification
\* prompt (no JSON, JSON that is no object, an object with missing, null or
\* non-numeric fields) interpreter_node returns without raising, and when the
\* reply is no well-formed classification the result is exactly intent
\* question, confidence 0.5, no entities, no inferred URL: the result is
\* either well formed or that default.
C17_InterpretDefaultsOnMalformed ==
    /\ (callsReturned /\ pc = "raised") => trace # <<>>
    /\ trace # <<>> => \/ ClassificationOf(st) = DefaultInterpretation
                       \/ WellFormed(ClassificationOf(st))

\* C18: for every reply the completion model gives to the critique prompt (no
\* JSON, JSON that is no object, a null or non-numeric score, issues that are
\* no strings) critic_node returns without raising, and a reply that cannot
\* be parsed yields is_approved true with empty feedback: no run of
\* critic_node raises once the model has replied, and the default of the
\* except branch sends the run to answer.
C18_CritiqueDefaultsOnUnparseable ==
    /\ callsReturned => \A i \in DOMAIN critLog : ~critLog[i].raised
    /\ (pc = "critic" /\ Get(st, "critique_count", 0) + 1 < MaxCritiques)
          => LET r == critic_node(st, [kind |-> "garbage"])
             IN  /\ ~r.raised
                 /\ r.patch.is_approved = TRUE
                 /\ r.patch.critique_feedback = ""
                 /\ NextNode("critic", Merge(st, r.patch)) = "answer"

(***************************************************************************)
(* Hallucination filtering and reasoning spans                             *)
(***************************************************************************)
\* the positions of the calls of a list that name a valid tool
ValidAt(calls, names) == {i \in DOMAIN calls : calls[i].name \in names}

\* C19: hallucination filtering of a sequence of structured tool calls
\* against a non-empty valid-name set returns exactly the calls whose name is
\* in the set, in their original relative order; against an empty valid-name
\* set it returns the input sequence unchanged.
C19_FilterKeepsValidCallsInOrder ==
    (normalized /\ ollama_msg.tool_calls # <<>>) =>
        IF tool_names = {}
        THEN result.tool_calls = ollama_msg.tool_calls
        ELSE /\ IsSubsequence(result.tool_calls, ollama_msg.tool_calls)
             /\ Names(result.tool_calls) \subseteq tool_names
             /\ Len(result.tool_calls)
                    = Cardinality(ValidAt(ollama_msg.tool_calls, tool_names))

\* a hallucinated call between two valid ones has been removed
C19_Witness ==
    /\ normalized
    /\ adapter = "HermesXML"
    /\ tool_names = {Search, ReadFile}
    /\ Len(ollama_msg.tool_calls) = 3
    /\ result.tool_calls = <<ToolCall(Search), ToolCall(ReadFile)>>

\* C20: after HermesXML normalization of any content the returned content
\* holds no reasoning span, on one line or on several, and spans are removed
\* before the scan for calls, so that call markup inside a reasoning span is
\* never recovered as a tool call.
C20_NoThinkSpanSurvives ==
    (normalized /\ adapter = "HermesXML") =>
        /\ ThinkBlocks(result.content, 1) = <<>>
        /\ (/\ ollama_msg.tool_calls = <<>>
            /\ \A k \in DOMAIN apieces : apieces[k].kind \in {"prose", "think"})
              => result.tool_calls = <<>>

(***************************************************************************)
(* Normalization of content that holds no call                             *)
(***************************************************************************)
\* the content is prose alone: no reasoning span, no call markup
ProseOnly == \A k \in DOMAIN apieces : apieces[k].kind = "prose"

\* C21: when a message has no structured tool calls and its content holds
\* neither a reasoning span nor tool-call markup, HermesXML normalization is
\* a no-op: the returned content is the input content character for
\* character, its leading and trailing whitespace included, and no tool call
\* is added.
C21_PlainContentIsUntouched ==
    (normalized /\ adapter = "HermesXML" /\ ollama_msg.tool_calls = <<>>
         /\ ProseOnly)
        => /\ result.content = ollama_msg.content
           /\ result.tool_calls = <<>>

\* the text sub occurs in the text s
Contains(s, sub) == FindFrom(s, 1, sub) # 0

\* the content is one bare JSON call of a valid tool inline in prose: prose
\* before it, prose after it, and no other piece
BareCallInProse ==
    /\ adapter = "FencedJSON"
    /\ ollama_msg.tool_calls = <<>>
    /\ Len(apieces) = 3
    /\ apieces[1].kind = "prose"
    /\ apieces[2].text = JsonBare
    /\ apieces[2].name \in tool_names
    /\ apieces[3].kind = "prose"

\* C22: FencedJSON normalization of a message without structured calls whose
\* content holds, inline in prose, a bare JSON object with a valid name and
\* an arguments object yields exactly one tool call, with that name and
\* those arguments, and a content that no longer holds the JSON object while
\* the prose before and after it remains (up to the whitespace at its ends).
C22_BareJsonCallIsRecovered ==
    (normalized /\ BareCallInProse) =>
        /\ result.tool_calls
               = <<[name |-> apieces[2].name, arguments |-> apieces[2].arguments]>>
        /\ ~Contains(result.content, JsonBare)
        /\ ~Contains(result.content, <<"{">>)
        /\ Trim(result.content) = Trim(apieces[1].text \o apieces[3].text)

C22_Witness ==
    /\ normalized
    /\ BareCallInProse
    /\ tool_names = {Search, ReadFile}
    /\ result.tool_calls[1].name = ReadFile
    /\ result.content = <<"H", "i", " ", "H", "i">>

\* the message has no structured calls and goes through FencedJSON recovery
JsonRecovery == adapter = "FencedJSON" /\ ollama_msg.tool_calls = <<>>

\* C23: FencedJSON normalization never fabricates a tool call from JSON that
\* is no tool call: a fenced or bare object without the name key or without
\* the arguments key, and text that is no valid JSON, yield no tool call and
\* no error, and that text stays in the returned content unchanged.
C23_NoCallFromOtherJson ==
    (normalized /\ JsonRecovery) =>
        /\ IsSubsequence(result.tool_calls, CallsOf(apieces))
        /\ \A k \in DOMAIN apieces :
               apieces[k].kind = "other" => Contains(result.content, apieces[k].text)
        /\ (\A k \in DOMAIN apieces : apieces[k].kind # "call")
               => result = ollama_msg

\* a call between an object without a name and an object without arguments
\* is the only one recovered
C23_Witness ==
    /\ normalized
    /\ JsonRecovery
    /\ Len(apieces) = 3
    /\ apieces[1].text = JsonFencedOther
    /\ apieces[2].text = JsonBare
    /\ apieces[3].text = JsonNameOnly
    /\ Len(result.tool_calls) = 1
    /\ result.content = JsonFencedOther \o JsonNameOnly

(***************************************************************************)
(* Claims about the selection of adapters.                                 *)
(***************************************************************************)
\* the variant the rules give, read rule by rule
ChosenVariant(model) ==
    IF FindFrom(model, 1, CoderPattern) # 0 THEN "FencedJSON"
    ELSE IF FindFrom(model, 1, FamilyPattern) # 0 THEN "HermesXML"
    ELSE "Base"

ReturnedVariant == instances[selected.instance]

\* C24: every call of select_adapter returns the adapter of the first rule
\* that matches the identifier (the coder rule before the family rule, Base
\* when none matches), and a call with an identifier asked before returns
\* the instance that was returned for it then.
C24_FirstMatchAndCached ==
    /\ [](selected # NoCall => ReturnedVariant = ChosenVariant(selected.model))
    /\ [][\A m \in DOMAIN adapter_cache :
              /\ adapter_cache'[m] = adapter_cache[m]
              /\ instances'[adapter_cache[m]] = instances[adapter_cache[m]]
              /\ selected'.model = m => selected'.instance = adapter_cache[m]]_vars

\* the identifier both patterns occur in was asked for a second time, after
\* other adapters were made
C24_Witness ==
    /\ selected.model = Qwen3Coder
    /\ selected.instance < Len(instances)
    /\ ReturnedVariant = "FencedJSON"
    /\ Cardinality({instances[k] : k \in DOMAIN instances}) = 3

(***************************************************************************)
(* The answer node: final_response and actions_taken                       *)
(***************************************************************************)
\* the text, a sequence of parts, holds the part
HasPart(text, part) == \E i \in DOMAIN text : text[i] = part

Listed(action) == HasPart(st.actions_taken, action)

\* the run has ended, interpret gave intent learning with an inferred URL and
\* the ingestion reported success with at least one page
LearnedPages ==
    /\ pc = "END"
    /\ IntentOf(st) = "learning"
    /\ Truthy(UrlOf(st))
    /\ Get(st, "ingestion_status", "") = "success"
    /\ Get(st, "pages_indexed", 0) >= 1

\* C25: in a run where interpret yields intent learning with an inferred URL
\* and the ingestion reports success with P >= 1 pages, final_response holds
\* the collection name and P, and actions_taken lists crawl and synthesize
\* and does not list research.
C25_SuccessfulIngestIsReported ==
    LearnedPages =>
        /\ HasPart(st.final_response, st.collection_name)
        /\ HasPart(st.final_response, ToString(st.pages_indexed))
        /\ Listed("crawl")
        /\ Listed("synthesize")
        /\ ~Listed("research")

C25_Witness ==
    /\ LearnedPages
    /\ st.pages_indexed = MaxIndexed
    /\ st.collection_name = "fastapi_tiangolo_com"
    /\ st.actions_taken = <<"crawl", "synthesize">>

\* C26: when the run has ended, actions_taken lists research exactly when
\* the research node ran, whatever it gathered, and it lists synthesize.
C26_ResearchListedWhenRun ==
    pc = "END" =>
        /\ Listed("research") <=> Runs("research") > 0
        /\ Listed("synthesize")

(***************************************************************************)
(* The revise node                                                         *)
(***************************************************************************)
IssuesSuffix == "\n\nPrevious draft issues: "

SummaryOf(state) == Get(state, "research_summary", <<>>)

\* the number of suffixes the summary holds
Suffixes(summary) == Cardinality({i \in DOMAIN summary : summary[i] = IssuesSuffix})

IsPrefix(s, t) == Len(s) <= Len(t) /\ SubSeq(t, 1, Len(s)) = s

\* C27: a run of revise changes no field of the state but research_summary,
\* which becomes the previous summary followed by the suffix `Previous draft
\* issues` and the critique feedback; the summary research produced is only
\* ever extended, so after k runs of revise the summary starts with it and
\* holds k suffixes.
C27_ReviseOnlyExtendsSummary ==
    /\ [][pc = "revise" =>
              /\ pc' = "synthesis"
              /\ DOMAIN st' = DOMAIN st
              /\ \A key \in DOMAIN st \ {"research_summary"} : st'[key] = st[key]
              /\ st'.research_summary =
                     st.research_summary \o <<IssuesSuffix, st.critique_feedback>>]_vars
    /\ [][Runs("research") > 0
              => IsPrefix(st.research_summary, SummaryOf(st'))]_vars
    /\ [](Suffixes(SummaryOf(st)) = Runs("revise"))

\* revise has run twice on a summary the research node produced
C27_Witness ==
    /\ Runs("revise") = 2
    /\ Runs("research") = 1
    /\ Len(st.research_summary) = 5
    /\ st.research_summary[1] = "summary"
    /\ st.research_summary[3] = IssuesFeedback
    /\ st.research_results # <<>>

(***************************************************************************)
(* The research node and its collaborators                                 *)
(***************************************************************************)
ResearchReturned == research_pc = "returned"

Results == research_out.research_results

IsWeb(entry) == entry.source = "web"

\* the collections the listing names at its first three places
FirstListed ==
    IF sources.listing.ok
    THEN {sources.listing.v[i] : i \in DOMAIN sources.listing.v \cap 1..3}
    ELSE {}

\* the place of a collection in the listing
Place(collection) ==
    CHOOSE i \in DOMAIN sources.listing.v : sources.listing.v[i] = collection

\* the entry is a hit of the collection, under the tag of that collection
IsHitOf(entry, collection) ==
    /\ entry.source = "rag:" \o collection
    /\ sources.search[collection].ok
    /\ \E k \in DOMAIN sources.search[collection].v :
           /\ entry.content = sources.search[collection].v[k].text
           /\ entry.url = sources.search[collection].v[k].url

\* the entry is a result of the web search
IsWebResult(entry) ==
    /\ sources.web.ok
    /\ \E k \in DOMAIN sources.web.v :
           /\ entry.content = sources.web.v[k].content
           /\ entry.url = sources.web.v[k].url

CollectionOf(entry) == CHOOSE c \in Collections : entry.source = "rag:" \o c

\* C28: in research_results every vector-store hit precedes every web hit,
\* the vector-store hits are grouped by collection in the order of the
\* listing, they come from the first 3 listed collections only, each is
\* tagged rag:<collection> with its own collection, and each web hit is
\* tagged web.
C28_VectorHitsFirstThenWeb ==
    ResearchReturned =>
        /\ \A i \in DOMAIN Results :
               IF IsWeb(Results[i]) THEN IsWebResult(Results[i])
               ELSE \E c \in FirstListed : IsHitOf(Results[i], c)
        /\ \A i, j \in DOMAIN Results :
               i < j =>
                   /\ IsWeb(Results[i]) => IsWeb(Results[j])
                   /\ (~IsWeb(Results[i]) /\ ~IsWeb(Results[j]))
                          => Place(CollectionOf(Results[i]))
                                 <= Place(CollectionOf(Results[j]))

\* four collections are listed, all four have hits, the web search has
\* results: the hits of the first three precede the web results
C28_Witness ==
    /\ ResearchReturned
    /\ Len(sources.listing.v) = 4
    /\ \A c \in Collections : sources.search[c].ok /\ Len(sources.search[c].v) = HitLimit
    /\ Len(Results) = 3 * HitLimit + WebLimit
    /\ Results[1].source = "rag:wiki"
    /\ Results[3 * HitLimit].source = "rag:api"
    /\ Results[3 * HitLimit + 1].source = "web"

\* the search of the collection was made
Searched(collection) ==
    /\ sources.listing.ok
    /\ sources.embed = "vector"
    /\ collection \in FirstListed

\* a call of a source raised
SomeSourceFailed ==
    \/ ~sources.listing.ok
    \/ sources.listing.ok /\ sources.listing.v # <<>> /\ sources.embed = "raises"
    \/ \E c \in Collections : Searched(c) /\ ~sources.search[c].ok
    \/ ~sources.web.ok

Holds(entry) == \E i \in DOMAIN Results : Results[i] = entry

\* the sources that failed contribute no entry
FailedSourcesAreOmitted ==
    /\ ~sources.web.ok => \A i \in DOMAIN Results : ~IsWeb(Results[i])
    /\ \A c \in Collections :
           ~(Searched(c) /\ sources.search[c].ok)
               => \A i \in DOMAIN Results : Results[i].source # "rag:" \o c

\* every hit of every collection whose search returned is an entry
SearchedHitsAreHeld ==
    \A c \in Collections :
        (Searched(c) /\ sources.search[c].ok)
            => \A k \in DOMAIN sources.search[c].v :
                   Holds(RagEntry(c, sources.search[c].v[k]))

\* the summary call, if one was made, returned
SummaryReturned == summary_reply # "unavailable"

\* C29: when the listing, the embedding, the search of a collection or the
\* web search raises (and the summary call returns), research_node returns,
\* the source that failed contributes no entry, and every result of every
\* source that succeeded is in research_results.
C29_FailedSourceIsOmitted ==
    (research_pc # "start" /\ SomeSourceFailed /\ SummaryReturned) =>
        /\ ResearchReturned
        /\ FailedSourcesAreOmitted
        /\ SearchedHitsAreHeld
        /\ sources.web.ok
               => \A k \in DOMAIN sources.web.v : Holds(WebEntry(sources.web.v[k]))

(***************************************************************************)
(* The crawl of the ingest node                                            *)
(***************************************************************************)
\* C30: in every crawl, whatever the pages return, the number of pages
\* fetched and the number of pages indexed that is returned are at most 20.
C30_CrawlIsBoundedTo20Pages ==
    /\ fetched <= 20
    /\ indexed <= 20

(***************************************************************************)
(* HermesXML recovery that finds no valid call                             *)
(***************************************************************************)
\* the call blocks the recovery finds in the content
BlocksFound == ParseXmlToolCalls(StripThinkTags(ollama_msg.content)).calls

\* the message has no structured calls, its content holds call blocks, and
\* none of them names a valid tool
OnlyInvalidBlocks ==
    /\ normalized
    /\ adapter = "HermesXML"
    /\ ollama_msg.tool_calls = <<>>
    /\ BlocksFound # <<>>
    /\ \A k \in DOMAIN BlocksFound : BlocksFound[k].name \notin tool_names

\* C34: when HermesXML recovery from a message without structured calls
\* finds call blocks and none names a valid tool, the result has no tool
\* calls and its content is the input content without its reasoning spans
\* and otherwise untouched, the call markup still in it.
C34_NoValidBlockLeavesContent ==
    OnlyInvalidBlocks =>
        /\ result.tool_calls = <<>>
        /\ result.content = WithoutThinkSpans(ollama_msg.content)

(***************************************************************************)
(* The fields of the AgentState along a run                                *)
(***************************************************************************)
\* C35: once the interpreter node has run, intent_type is one of learning,
\* question, followup, command: an intent outside this set in the reply is
\* replaced by the default question.
C35_IntentIsOneOfFour ==
    Runs("interpreter") > 0 => st.intent_type \in Intents

\* C36: when the run has ended, actions_taken lists revise exactly when the
\* revise node ran at least once, which is exactly when critique_count is
\* greater than 1.
C36_ReviseListedWhenRun ==
    pc = "END" =>
        /\ Listed("revise") <=> Runs("revise") > 0
        /\ Runs("revise") > 0 <=> Get(st, "critique_count", 0) > 1

\* an ended run with one revision and two critiques
C36_Witness ==
    /\ pc = "END"
    /\ Runs("revise") = 1
    /\ st.critique_count = 2
    /\ st.actions_taken = <<"research", "revise", "synthesize">>

CritiqueCount(state) == Get(state, "critique_count", 0)

\* C38: in every state of a run critique_count is between 0 and 3 and equals
\* the number of critique runs completed: unset until the first, one more
\* after each, changed by no other step; and the run goes from critique to
\* revise only when is_approved is false and critique_count is below 3.
C38_CritiqueCountIsBounded ==
    /\ [](/\ CritiqueCount(st) \in 0..3
          /\ CritiqueCount(st) = Runs("critic")
          /\ Runs("critic") = 0 => "critique_count" \notin DOMAIN st)
    /\ [][(pc = "critic" /\ pc' # "raised")
              => /\ CritiqueCount(st') = CritiqueCount(st) + 1
                 /\ pc' \in {"revise", "answer"}
                 /\ pc' = "revise"
                        => st'.is_approved = FALSE /\ CritiqueCount(st') < 3]_vars
    /\ [][pc # "critic" => CritiqueCount(st') = CritiqueCount(st)]_vars

\* the third critique has run, after two that sent the run to revise
C38_Witness ==
    /\ CritiqueCount(st) = 3
    /\ Runs("revise") = 2
    /\ pc = "answer"

\* the fields the dict returned by a node holds
PatchFields(node) ==
    CASE node = "interpreter" -> {"intent_type", "confidence", "entities", "inferred_url"}
      [] node = "decision" -> {"next_action"}
      [] node = "crawl" -> {"ingestion_status", "ingestion_message", "pages_indexed",
                            "collection_name"}
      [] node = "ingest_response" -> {"draft_response", "is_approved"}
      [] node = "resolve_context" -> {"research_summary"}
      [] node = "research" -> {"research_results", "research_summary"}
      [] node = "synthesis" -> {"draft_response", "sources"}
      [] node = "critic" -> {"is_approved", "critique_count", "critique_score",
                             "critique_feedback"}
      [] node = "revise" -> {"research_summary"}
      [] node = "answer" -> {"final_response", "actions_taken"}
      [] OTHER -> {}

\* C32: a node changes the state by a partial merge: every field that the
\* dict the node returns does not hold is in the state after the node with
\* the value it had before; message and conversation_id keep their initial
\* values in every state of the run.
C32_NodesMergePartially ==
    /\ [][\A key \in DOMAIN st \ PatchFields(pc) :
              key \in DOMAIN st' /\ st'[key] = st[key]]_vars
    /\ [][/\ {"message", "conversation_id"} \subseteq DOMAIN st'
          /\ st'.message = st.message
          /\ st'.conversation_id = st.conversation_id]_vars

\* an ended run that went through the critique loop: every field of the
\* state is set but those of the ingestion
C32_Witness ==
    /\ pc = "END"
    /\ Runs("revise") = 2
    /\ st.message = "what is a monad"
    /\ st.conversation_id = "conv-1"
    /\ {"intent_type", "next_action", "research_results", "draft_response",
        "critique_count", "final_response"} \subseteq DOMAIN st

FollowupContext == "Followup context: "

\* what a run routed directly to research holds after research, for the
\* message, the results gathered and a reply to the summary prompt
DirectResearch(message, results, reply) ==
    research_node([message |-> message], results, reply)

\* C37: a run routed through resolve_context enters synthesis with the
\* research_results and research_summary of a run routed directly to
\* research, for the same message and replies of the collaborators: the
\* summary `Followup context` of resolve_context is overwritten by the
\* research node and never reaches synthesis.
C37_FollowupContextIsOverwritten ==
    /\ [][(pc = "research" /\ pc' # "raised")
              => /\ pc' = "synthesis"
                 /\ \E reply \in SummaryReplies :
                        LET direct == DirectResearch(st.message, st'.research_results, reply)
                        IN  /\ ~direct.raised
                            /\ st'.research_summary = direct.patch.research_summary]_vars
    /\ [](pc = "synthesis" => ~HasPart(SummaryOf(st), FollowupContext))
    /\ [](pc = "research" /\ Runs("resolve_context") > 0
              => HasPart(SummaryOf(st), FollowupContext))

\* a run routed through resolve_context is about to enter synthesis, once
\* with nothing gathered
C37_Witness ==
    /\ pc = "synthesis"
    /\ trace = <<"interpreter", "decision", "resolve_context", "research">>
    /\ st.research_results = <<>>
    /\ st.research_summary = <<>>

\* C40: whenever the ingestion reports success, pages_indexed is at least 1,
\* and the narrative of ingest_response reports no zero count of pages.
C40_SuccessMeansPagesIndexed ==
    Get(st, "ingestion_status", "") = "success" =>
        /\ st.pages_indexed >= 1
        /\ "draft_response" \in DOMAIN st => ~HasPart(st.draft_response, "0")

(***************************************************************************)
(* The points of the vector store under a second crawl                     *)
(***************************************************************************)
KeptEver == stored[1] \cup stored[2]

IdOf(chunk) == ChunkId(SitePages[chunk[1]], chunk[2])

\* C31: every chunk a crawl stores is under the identifier made of its URL
\* and its chunk index, the same in both crawls, so the store holds one point
\* for each chunk ever stored; and when the second crawl of the unchanged
\* pages stores no chunk the first did not, the points after it are the
\* points after the first: overwritten, not duplicated.
C31_RecrawlOverwrites ==
    /\ \A chunk \in KeptEver :
           /\ IdOf(chunk) \in DOMAIN points
           /\ points[IdOf(chunk)] = ChunkPayload(SitePages[chunk[1]], chunk[2])
    /\ Cardinality(DOMAIN points) = Cardinality(KeptEver)
    /\ (crawl_no = 3 /\ stored[2] \subseteq stored[1]) => points = first_points

\* both crawls have ended, each stored two chunks of each page
C31_Witness ==
    /\ crawl_no = 3
    /\ stored[1] = stored[2]
    /\ Cardinality(stored[2]) = 2 * MaxChunks
    /\ Cardinality(DOMAIN points) = 2 * MaxChunks
    /\ points = first_points

(***************************************************************************)
(* Two crawls creating their collection at once                            *)
(***************************************************************************)
\* C39: whatever the order of the two callers' list and PUT steps, a call of
\* create_collection that has ended returned True or False: none raised.
C39_NeitherCallFails ==
    \A c \in Callers :
        caller_pc[c] = "done" => caller_ret[c] \in {"True", "False"}

\* the two callers ask for one name, one created it and the other, having
\* listed the collections before that, raised on its PUT
C39_OneCallRaised ==
    /\ caller_name[1] = caller_name[2]
    /\ \E c, d \in Callers :
           /\ caller_ret[c] = "True"
           /\ caller_ret[d] = "raised"

(***************************************************************************)
(* Two requests interleaved                                                *)
(***************************************************************************)
\* where the run of request r ends from where it is now
Outcome(r) ==
    IF requests[r].pc = "interpreter"
    THEN RunAlone("interpreter", InvokeInput(requests[r].script), requests[r].script)
    ELSE RunAlone(requests[r].pc, requests[r].st, requests[r].script)

\* what the response to request r comes to, from what has been returned so
\* far and the filter as it is now
OutputInAll(r) ==
    IF streams[r].done THEN streams[r].out
    ELSE streams[r].out
         \o RestAlone(filters[streams[r].filter], streams[r].response.chunks,
                      streams[r].pos + 1)

\* C33: however the node runs and the feed and flush calls of two requests
\* are interleaved, each request ends in the AgentState it ends in when run
\* alone on the same replies, and the filtered output of each response is
\* the output of the same chunks fed to a filter of its own.
C33_RequestsDoNotInterfere ==
    \A r \in RequestIds :
        /\ Outcome(r) = RunAlone("interpreter", InvokeInput(requests[r].script),
                                 requests[r].script)
        /\ streams[r].filter # 0 =>
               OutputInAll(r) = RestAlone(NewFilter(streams[r].response.user_agent),
                                          streams[r].response.chunks, 1)

\* the response to request 1 has been streamed through a filter selected
\* after that of request 2, while the response to request 2 is half fed and
\* its filter is inside a fence with text in its buffer
C33_Witness ==
    /\ requests[1].pc = "END" /\ requests[1].script = RejectedScript
    /\ requests[2].pc = "END" /\ requests[2].script = LearnScript
    /\ streams[1].done /\ streams[1].filter = 2
    /\ streams[1].response = BoldStream
    /\ streams[1].out = <<"a", "\n", "b">>
    /\ streams[2].response = FenceStream /\ streams[2].pos = 1
    /\ streams[2].filter = 1
    /\ filters[1].fence
    /\ filters[1].buffer = <<"*", "*">>
====
